---- MODULE Spec2Model ----
(***************************************************************************)
(* CalendarUSP: the grid scraper (extractSchedule and waitForElement of    *)
(* the content script, in its versions), the popup controller and the      *)
(* calendar exporter, as state machines.                                   *)
(*                                                                         *)
(* Strings that the code builds from templates are modelled as tuples or   *)
(* records of their parts; accented letters are written without accents.   *)
(***************************************************************************)
EXTENDS Integers, Sequences, FiniteSets, TLC

None == "none"

(***************************************************************************)
(* Bounds of the model.                                                    *)
(***************************************************************************)
MaxRows == 2
MaxSlots == 2
MaxClicks == 2
MaxExports == 2
MaxDayRows == 2

(***************************************************************************)
(* Program constants of waitForElement.                                    *)
(***************************************************************************)
Timeout == 5000
PollInterval == 100

(***************************************************************************)
(* The page: the values the scraped DOM can carry.                         *)
(***************************************************************************)
Codes == {"MAC0110", "MAC0121"}
\* weekday columns: two known days; the same unknown text twice
HeaderRows == {<<"Seg", "Qua">>, <<"Xyz", "Xyz">>}
RowTimes == {<<"08:00", "10:00">>, <<"10:00", "12:00">>}

dayMap ==
  [a \in {"Seg", "Ter", "Qua", "Qui", "Sex", "Sab", "Dom"} |->
     CASE a = "Seg" -> "Segunda-feira"
       [] a = "Ter" -> "Terca-feira"
       [] a = "Qua" -> "Quarta-feira"
       [] a = "Qui" -> "Quinta-feira"
       [] a = "Sex" -> "Sexta-feira"
       [] a = "Sab" -> "Sabado"
       [] a = "Dom" -> "Domingo"]

\* HeaderDay without the fallback to the text itself.
HeaderDayNoFallback(dayAbbreviation) ==
  IF dayAbbreviation \in DOMAIN dayMap THEN dayMap[dayAbbreviation] ELSE ""

\* dayMap[dayAbbreviation] || dayAbbreviation
HeaderDay(dayAbbreviation) ==
  IF dayAbbreviation \in DOMAIN dayMap THEN dayMap[dayAbbreviation]
  ELSE dayAbbreviation

\* Array.from(headerCells).slice(2).map(...): headers holds the texts of the
\* header cells after the two time columns.
DaysOfWeek(headers) == [i \in 1..Len(headers) |-> HeaderDay(headers[i])]

\* A data row (tr.jqgrow): a short row has fewer than two td; any other row
\* has the two time cells and one cell per weekday column, each holding a
\* course marker (its data-disciplina code) or none.
ShortRow == [short |-> TRUE, startTime |-> "", endTime |-> "", cells |-> <<>>]
RowKinds(ncols) ==
  {ShortRow} \cup
  { [short |-> FALSE, startTime |-> t[1], endTime |-> t[2], cells |-> c] :
      t \in RowTimes, c \in [1..ncols -> Codes \cup {None}] }

RECURSIVE SeqsUpTo(_, _)
SeqsUpTo(S, n) ==
  IF n = 0 THEN {<<>>}
  ELSE LET shorter == SeqsUpTo(S, n - 1)
       IN shorter \cup { Append(s, x) : s \in {q \in shorter : Len(q) = n - 1}, x \in S }

RECURSIVE RowMarks(_, _)
RowMarks(cells, i) ==
  IF i > Len(cells) THEN 0
  ELSE (IF cells[i] # None THEN 1 ELSE 0) + RowMarks(cells, i + 1)

RECURSIVE GridMarks(_, _)
GridMarks(g, r) ==
  IF r > Len(g) THEN 0 ELSE RowMarks(g[r].cells, 1) + GridMarks(g, r + 1)

\* The grid widget lists its rows by time of day.
TimeSorted(g) ==
  \A r \in 1..(Len(g) - 1) :
     g[r].short \/ g[r + 1].short \/ g[r].startTime = g[r + 1].startTime
       \/ (g[r].startTime = "08:00" /\ g[r + 1].startTime = "10:00")

Grids(ncols) ==
  { g \in SeqsUpTo(RowKinds(ncols), MaxRows) :
      GridMarks(g, 1) <= MaxSlots /\ TimeSorted(g) }

(***************************************************************************)
(* The walk over the rows (both passes share it): the marked cells in the  *)
(* order the loops meet them, each with its row's times and its column's   *)
(* weekday.                                                                *)
(***************************************************************************)
RECURSIVE RowCells(_, _, _)
RowCells(row, days, i) ==
  IF i > Len(row.cells) THEN <<>>
  ELSE (IF row.cells[i] # None
        THEN << [code |-> row.cells[i], day |-> days[i],
                 startTime |-> row.startTime, endTime |-> row.endTime] >>
        ELSE <<>>) \o RowCells(row, days, i + 1)

RECURSIVE MarkedCells(_, _, _)
MarkedCells(g, days, r) ==
  IF r > Len(g) THEN <<>>
  ELSE (IF g[r].short THEN <<>> ELSE RowCells(g[r], days, 1))
         \o MarkedCells(g, days, r + 1)

SlotOf(cell) ==
  [day |-> cell.day, startTime |-> cell.startTime, endTime |-> cell.endTime]

\* CodesInOrder without the test for a code already stored.
CodesInOrderEveryCell(cells, k, acc) == [i \in 1..Len(cells) |-> cells[i].code]

\* The keys of disciplineSpans in insertion order: each code once, by its
\* first marked cell.  (for...in follows insertion order for keys that are
\* not array indices; the codes of the model are not.)
RECURSIVE CodesInOrder(_, _, _)
CodesInOrder(cells, k, acc) ==
  IF k > Len(cells) THEN acc
  ELSE CodesInOrder(cells, k + 1,
         IF \E j \in 1..Len(acc) : acc[j] = cells[k].code THEN acc
         ELSE Append(acc, cells[k].code))

\* disciplineSlots[code]: every marked cell of the code, in walk order.
\* SlotsOfCode with a slot left out when an earlier slot of the course has
\* its weekday and start time.
SlotsOfCodeMerged(cells, code) ==
  LET mine == SelectSeq(cells, LAMBDA x : x.code = code)
      kept == SelectSeq([k \in 1..Len(mine) |-> k],
                        LAMBDA k : \A j \in 1..(k - 1) :
                                      mine[j].day # mine[k].day
                                        \/ mine[j].startTime # mine[k].startTime)
  IN [k \in 1..Len(kept) |-> SlotOf(mine[kept[k]])]

SlotsOfCode(cells, code) ==
  LET mine == SelectSeq(cells, LAMBDA x : x.code = code)
  IN [k \in 1..Len(mine) |-> SlotOf(mine[k])]

\* CollectSlots with the walk of a course stopped at its first cell.
CollectSlotsFirstCell(cells) ==
  [c \in {cells[k].code : k \in 1..Len(cells)} |-> <<SlotsOfCode(cells, c)[1]>>]

CollectSlots(cells) ==
  LET order == CodesInOrder(cells, 1, <<>>)
  IN [c \in {order[k] : k \in 1..Len(order)} |-> SlotsOfCode(cells, c)]

(***************************************************************************)
(* The details panel of the page.  A click on a course marker asks the     *)
(* page for that course's details; the page renders them later, on its     *)
(* own schedule, or never.  shown is the course whose details the visible  *)
(* panel holds (none: no visible panel), pending the activations the page  *)
(* has not rendered yet.                                                   *)
(***************************************************************************)
PageName(code) == IF code = "MAC0110" THEN "Calculo I" ELSE "Algebra Linear"

\* The .docenteResponsavel nodes of a course: number and name.
PageProfs(code) ==
  IF code = "MAC0110"
  THEN << [num |-> "1234", name |-> "Ana"], [num |-> "", name |-> "Bia"] >>
  ELSE <<>>

\* What the page may have done since the script last ran: rendered none,
\* some or all of the pending activations, the last of them left visible.
PageMoves(sh, pe) ==
  { <<sh, pe>> } \cup
  UNION { { <<c, rest>> : rest \in SUBSET (pe \ {c}) } : c \in pe }

(***************************************************************************)
(* part_006: the offering tab of the panel.                                *)
(***************************************************************************)
\* dateString.split('/') on the date texts of the model.
SplitSlash(dateString) ==
  CASE dateString = "04/08/2025" -> <<"04", "08", "2025">>
    [] dateString = "10/12/2025" -> <<"10", "12", "2025">>
    [] dateString = "31/13/2025" -> <<"31", "13", "2025">>
    [] dateString = "1/2"        -> <<"1", "2">>
    [] OTHER                     -> <<dateString>>

\* new Date(`${y}-${m}-${d}T00:00:00`) is a valid date for the well formed
\* texts of the model and Invalid Date for month 13.
ValidIso(y, m, d) == m \in {"08", "12"} /\ d \in {"04", "10"} /\ y = "2025"

\* null as a date value, so that every date is a record.
NullDate == [null |-> TRUE, y |-> "", m |-> "", d |-> "", valid |-> FALSE]

\* null, or the Date built from the three parts (valid or Invalid Date).
parsePtDate(dateString) ==
  IF dateString = "" THEN NullDate
  ELSE LET parts == SplitSlash(dateString)
       IN IF Len(parts) = 3
          THEN [null |-> FALSE, y |-> parts[3], m |-> parts[2], d |-> parts[1],
                valid |-> ValidIso(parts[3], parts[2], parts[1])]
          ELSE NullDate

\* dayStr.trim().toLowerCase().substring(0, 3), first letter upper-cased.
Capitalized3(dayStr) ==
  CASE dayStr \in {"seg", " Seg ", "Segunda"} -> "Seg"
    [] dayStr \in {"qua", "QUA", "quarta"}     -> "Qua"
    [] dayStr = "xyz"                          -> "Xyz"
    [] dayStr \in {"sex", "sexta-feira"}       -> "Sex"
    [] dayStr = "feriado"                      -> "Fer"
    [] OTHER                                   -> dayStr

normalizeDayName(dayStr) ==
  IF dayStr = "" THEN ""
  ELSE LET capitalized == Capitalized3(dayStr)
       IN IF capitalized \in DOMAIN dayMap THEN dayMap[capitalized]
          ELSE capitalized

\* The texts the first cell of a row of the sub-table can hold.
DayTexts ==
  {"seg", " Seg ", "Segunda", "qua", "QUA", "quarta", "sex", "sexta-feira", "Dom",
   "xyz", "Xyz", "feriado", ""}

\* The first non-blank text among the nodes matching a selector, else "".
RECURSIVE getTextFromSelectors(_, _)
getTextFromSelectors(texts, k) ==
  IF k > Len(texts) THEN ""
  ELSE IF texts[k] # "" THEN texts[k]
  ELSE getTextFromSelectors(texts, k + 1)

\* specificProfMap after the forEach over the .horarios rows: a later row
\* with the same key overwrites an earlier one; rows with fewer than four
\* cells are skipped.
RECURSIVE ProfMapLookup(_, _, _)
ProfMapLookup(rowsHorarios, key, k) ==
  IF k = 0 THEN ""
  ELSE IF rowsHorarios[k].ncols >= 4
          /\ <<normalizeDayName(rowsHorarios[k].day), rowsHorarios[k].start>> = key
       THEN rowsHorarios[k].prof
       ELSE ProfMapLookup(rowsHorarios, key, k - 1)

\* SpecificProf without the placeholder.
SpecificProfNoPlaceholder(rowsHorarios, slot) ==
  ProfMapLookup(rowsHorarios, <<slot.day, slot.startTime>>, Len(rowsHorarios))

\* specificProfMap[lookupKey] || "Docente nao informado"
SpecificProf(rowsHorarios, slot) ==
  LET p == ProfMapLookup(rowsHorarios, <<slot.day, slot.startTime>>, Len(rowsHorarios))
  IN IF p = "" THEN "Docente nao informado" ELSE p

NoOffer ==
  [link |-> FALSE, div |-> FALSE, dtainitur |-> <<>>, dtafimtur |-> <<>>,
   horarios |-> <<>>]

\* What the panel of a course can hold under its offering tab.
PageOffers(code) ==
  IF code = "MAC0110"
  THEN { [link |-> TRUE, div |-> TRUE,
          dtainitur |-> <<"", "04/08/2025">>, dtafimtur |-> <<"", "10/12/2025">>,
          horarios |-> << [ncols |-> 4, day |-> "seg", start |-> "08:00", prof |-> "Ana"],
                          [ncols |-> 3, day |-> "qua", start |-> "08:00", prof |-> "Bia"],
                          [ncols |-> 4, day |-> "quarta", start |-> "10:00", prof |-> ""] >>] }
  ELSE { [link |-> FALSE, div |-> TRUE,
          dtainitur |-> <<"1/2">>, dtafimtur |-> <<"">>,
          horarios |-> << [ncols |-> 4, day |-> "xyz", start |-> "08:00", prof |-> "Caio"] >>],
         [link |-> TRUE, div |-> TRUE,
          dtainitur |-> <<"04/08/2025">>, dtafimtur |-> <<"31/13/2025">>,
          horarios |-> <<>>],
         NoOffer }

(***************************************************************************)
(* popup.js: dates.  A Date is its local calendar date and hour; an ISO    *)
(* string is the same instant read in UTC.                                 *)
(***************************************************************************)
\* The local zone is America/Sao_Paulo, three hours behind UTC.
TzOffset == 3

NoDate == [null |-> TRUE, utc |-> FALSE, y |-> 0, m |-> 0, d |-> 0, h |-> 0]

LocalDate(y, m, d, h) == [null |-> FALSE, utc |-> FALSE, y |-> y, m |-> m, d |-> d, h |-> h]

IsLeapYear(y) == (y % 4 = 0 /\ y % 100 # 0) \/ y % 400 = 0

DaysInMonth(y, m) ==
  CASE m \in {4, 6, 9, 11} -> 30
    [] m = 2 -> IF IsLeapYear(y) THEN 29 ELSE 28
    [] OTHER -> 31

\* The days from 1970-01-01 to the calendar date.
DayNumber(date) ==
  LET y == IF date.m <= 2 THEN date.y - 1 ELSE date.y
      era == y \div 400
      yoe == y - era * 400
      mp == IF date.m > 2 THEN date.m - 3 ELSE date.m + 9
      doy == (153 * mp + 2) \div 5 + date.d - 1
      doe == yoe * 365 + yoe \div 4 - yoe \div 100 + doy
  IN era * 146097 + doe - 719468

\* date.getDay(): 0 is Sunday; 1970-01-01 was a Thursday.
getDay(date) == (DayNumber(date) + 4) % 7

\* date.setDate(n): day n of the month of date, running over into the
\* months after it or before it.
RECURSIVE setDate(_, _)
setDate(date, n) ==
  IF n < 1
  THEN LET py == IF date.m = 1 THEN date.y - 1 ELSE date.y
           pm == IF date.m = 1 THEN 12 ELSE date.m - 1
       IN setDate([date EXCEPT !.y = py, !.m = pm], n + DaysInMonth(py, pm))
  ELSE IF n > DaysInMonth(date.y, date.m)
  THEN LET ny == IF date.m = 12 THEN date.y + 1 ELSE date.y
           nm == IF date.m = 12 THEN 1 ELSE date.m + 1
       IN setDate([date EXCEPT !.y = ny, !.m = nm], n - DaysInMonth(date.y, date.m))
  ELSE [date EXCEPT !.d = n]

\* date.toISOString() of a local date: the instant in UTC.
toISOString(date) ==
  IF date.h + TzOffset >= 24
  THEN [setDate(date, date.d + 1) EXCEPT !.utc = TRUE, !.h = date.h + TzOffset - 24]
  ELSE [date EXCEPT !.utc = TRUE, !.h = date.h + TzOffset]

\* new Date(value): a copy of a Date, or the local reading of an ISO string.
newDate(value) ==
  IF ~value.utc THEN value
  ELSE IF value.h >= TzOffset
  THEN [value EXCEPT !.utc = FALSE, !.h = value.h - TzOffset]
  ELSE [setDate(value, value.d - 1) EXCEPT !.utc = FALSE, !.h = value.h + 24 - TzOffset]

(***************************************************************************)
(* popup.js: the exporter.                                                 *)
(***************************************************************************)
getDayInitial(day) ==
  CASE day = "Segunda-feira" -> "MO"
    [] day = "Terca-feira"   -> "TU"
    [] day = "Quarta-feira"  -> "WE"
    [] day = "Quinta-feira"  -> "TH"
    [] day = "Sexta-feira"   -> "FR"
    [] day = "Sabado"        -> "SA"
    [] day = "Domingo"       -> "SU"
    [] OTHER                 -> ""

\* n.toString().padStart(2, '0'): the two digits
Pad2(n) == <<n \div 10, n % 10>>

\* time.split(':') and parseInt of the two parts
TimeParts(time) ==
  CASE time = "08:00" -> [hours |-> 8, minutes |-> 0]
    [] time = "10:00" -> [hours |-> 10, minutes |-> 0]
    [] time = "12:00" -> [hours |-> 12, minutes |-> 0]
    [] time = "00:00" -> [hours |-> 0, minutes |-> 0]
    [] time = "20:59" -> [hours |-> 20, minutes |-> 59]
    [] time = "21:00" -> [hours |-> 21, minutes |-> 0]
    [] time = "22:40" -> [hours |-> 22, minutes |-> 40]
    [] time = "23:59" -> [hours |-> 23, minutes |-> 59]

\* formatDateTimeForCalendar with the hour read in UTC and the day read in
\* the local zone.
formatDateTimeForCalendarUtcHours(date, time) ==
  LET d == newDate(date)
      t == TimeParts(time)
  IN [year |-> d.y, month |-> Pad2(d.m), day |-> Pad2(d.d),
      hours |-> Pad2((t.hours + TzOffset) % 24), minutes |-> Pad2(t.minutes),
      seconds |-> "00"]

\* `${year}${month}${day}T${fHours}${fMinutes}00`
formatDateTimeForCalendar(date, time) ==
  LET d == newDate(date)
      t == TimeParts(time)
  IN [year |-> d.y, month |-> Pad2(d.m), day |-> Pad2(d.d),
      hours |-> Pad2(t.hours), minutes |-> Pad2(t.minutes), seconds |-> "00"]

\* `${year}-${month}-${day}`
formatDateForLink(date) == [year |-> date.y, month |-> Pad2(date.m), day |-> Pad2(date.d)]

daysMap ==
  <<"Domingo", "Segunda-feira", "Terca-feira", "Quarta-feira", "Quinta-feira",
    "Sexta-feira", "Sabado">>

\* array.indexOf(x): from 0, -1 when absent
IndexOf(array, x) ==
  IF \E i \in 1..Len(array) : array[i] = x
  THEN (CHOOSE i \in 1..Len(array) :
           array[i] = x /\ \A j \in 1..(i - 1) : array[j] # x) - 1
  ELSE -1

\* calculateFirstClassDate without the step into the next week.
calculateFirstClassDateSameWeek(startDate, targetDayName) ==
  LET targetIndex == IndexOf(daysMap, targetDayName)
      start == newDate(startDate)
  IN IF targetIndex = -1 THEN newDate(startDate)
     ELSE setDate(start, start.d + (targetIndex - getDay(start)))

calculateFirstClassDate(startDate, targetDayName) ==
  LET targetIndex == IndexOf(daysMap, targetDayName)
      start == newDate(startDate)
      currentIndex == getDay(start)
      difference == targetIndex - currentIndex
      daysToAdd == IF difference < 0 THEN difference + 7 ELSE difference
  IN IF targetIndex = -1 THEN newDate(startDate)
     ELSE setDate(start, start.d + daysToAdd)

\* encodeURIComponent(text)
encodeURIComponent(text) == <<"uri", text>>

\* The rule of the Google link with the count on every event.
rruleCountOnly(ev) ==
  <<<<"FREQ", "WEEKLY">>, <<"BYDAY", getDayInitial(ev.day)>>, <<"COUNT", 18>>>>

\* popup.js 107-120: the parts of rrule, in order
rrule(ev) ==
  LET endD == newDate(ev.endDate)
      weekly == <<<<"FREQ", "WEEKLY">>, <<"BYDAY", getDayInitial(ev.day)>>>>
  IN IF ~ev.endDate.null
     THEN Append(weekly, <<"UNTIL", [year |-> endD.y, month |-> Pad2(endD.m),
                                     day |-> Pad2(endD.d), time |-> "T235959Z"]>>)
     ELSE Append(weekly, <<"COUNT", 18>>)

createGoogleCalendarLink(ev, firstDate) ==
  [baseUrl |-> "https://www.google.com/calendar/render?action=TEMPLATE",
   text |-> encodeURIComponent(ev.title),
   dates |-> <<formatDateTimeForCalendar(firstDate, ev.startTime),
               formatDateTimeForCalendar(firstDate, ev.endTime)>>,
   details |-> encodeURIComponent(ev.description),
   location |-> encodeURIComponent(ev.location),
   ctz |-> "America/Sao_Paulo",
   recur |-> <<"RRULE", rrule(ev)>>]

createOutlookCalendarLink(ev, firstDate) ==
  [baseUrl |-> "https://outlook.live.com/calendar/0/deeplink/compose?path=/calendar/action/compose&rru=addevent",
   subject |-> encodeURIComponent(ev.title),
   startdt |-> [date |-> formatDateForLink(firstDate), time |-> ev.startTime, seconds |-> "00"],
   enddt |-> [date |-> formatDateForLink(firstDate), time |-> ev.endTime, seconds |-> "00"],
   body |-> encodeURIComponent(ev.description),
   location |-> encodeURIComponent(ev.location)]

\* popup.js 185-225: the card of one event, with the date it was built on
Card(ev, now) ==
  LET firstClassDate ==
        IF ~ev.startDate.null THEN calculateFirstClassDate(ev.startDate, ev.day)
        ELSE calculateFirstClassDate(now, ev.day)
  IN [title |-> ev.title, day |-> ev.day, startTime |-> ev.startTime,
      endTime |-> ev.endTime,
      professors |-> IF ev.professors # "" THEN ev.professors
                     ELSE "Prof. nao identificado",
      firstClassDate |-> firstClassDate,
      googleLink |-> createGoogleCalendarLink(ev, firstClassDate),
      outlookLink |-> createOutlookCalendarLink(ev, firstClassDate)]

\* popup.js 181-226
displayResults(evs, now) == [k \in 1..Len(evs) |-> Card(evs[k], now)]

\* date.setHours(hours, 59, 59): the same local day at the given hour
setHours(date, hours) == [date EXCEPT !.h = hours]

\* The rule of the calendar file with the end date as it was parsed.
icsRruleNoSetHours(ev, dayInitial) ==
  LET endD == newDate(ev.endDate)
      weekly == <<<<"FREQ", "WEEKLY">>, <<"BYDAY", dayInitial>>>>
  IN IF ~ev.endDate.null
     THEN Append(weekly, <<"UNTIL", [year |-> endD.y, month |-> Pad2(endD.m),
                                     day |-> Pad2(endD.d), hours |-> Pad2(endD.h),
                                     minutes |-> Pad2(0), seconds |-> Pad2(0),
                                     zone |-> "Z"]>>)
     ELSE Append(weekly, <<"COUNT", 18>>)

\* popup.js 265-284: the parts of the rule of a VEVENT, in order
icsRrule(ev, dayInitial) ==
  LET endD == setHours(newDate(ev.endDate), 23)
      weekly == <<<<"FREQ", "WEEKLY">>, <<"BYDAY", dayInitial>>>>
  IN IF ~ev.endDate.null
     THEN Append(weekly, <<"UNTIL", [year |-> endD.y, month |-> Pad2(endD.m),
                                     day |-> Pad2(endD.d), hours |-> Pad2(endD.h),
                                     minutes |-> Pad2(59), seconds |-> Pad2(59),
                                     zone |-> "Z"]>>)
     ELSE Append(weekly, <<"COUNT", 18>>)

\* The lines every calendar file starts with (popup.js 234-248).
IcsHeader ==
  <<<<"BEGIN", "VCALENDAR">>, <<"VERSION", "2.0">>,
    <<"PRODID", "-//CalendarUSP//ExportadorGradeHoraria//PT">>,
    <<"CALSCALE", "GREGORIAN">>, <<"BEGIN", "VTIMEZONE">>,
    <<"TZID", "America/Sao_Paulo">>, <<"BEGIN", "STANDARD">>,
    <<"DTSTART", "19700101T000000">>, <<"TZOFFSETFROM", "-0300">>,
    <<"TZOFFSETTO", "-0300">>, <<"TZNAME", "BRT">>, <<"END", "STANDARD">>,
    <<"END", "VTIMEZONE">>>>

\* One pass of the forEach of the export handler (popup.js 250-296): the
\* lines it pushes; none for an event without a day initial.
IcsEvent(ev, now) ==
  LET dayInitial == getDayInitial(ev.day)
      firstClassDate ==
        IF ~ev.startDate.null THEN calculateFirstClassDate(ev.startDate, ev.day)
        ELSE calculateFirstClassDate(now, ev.day)
  IN IF dayInitial = "" THEN <<>>
     ELSE <<<<"BEGIN", "VEVENT">>,
            <<"DTSTART;TZID=America/Sao_Paulo",
              formatDateTimeForCalendar(firstClassDate, ev.startTime)>>,
            <<"DTEND;TZID=America/Sao_Paulo",
              formatDateTimeForCalendar(firstClassDate, ev.endTime)>>,
            <<"RRULE", icsRrule(ev, dayInitial)>>,
            <<"SUMMARY", ev.title>>,
            <<"DESCRIPTION", <<"escaped", ev.description>>>>,
            <<"LOCATION", ev.location>>,
            <<"END", "VEVENT">>>>

\* The lines pushed for the events from the k-th on.
RECURSIVE IcsEvents(_, _, _)
IcsEvents(evs, now, k) ==
  IF k > Len(evs) THEN <<>>
  ELSE IcsEvent(evs[k], now) \o IcsEvents(evs, now, k + 1)

\* icsContent as it is joined into the file (popup.js 234-298).
IcsDocument(evs, now) ==
  IcsHeader \o IcsEvents(evs, now, 1) \o <<<<"END", "VCALENDAR">>>>

\* An event as the popup receives it: the dates are ISO strings, or absent.
ScrapedEvent(title, day, times, professors, startDate, endDate) ==
  [title |-> title, day |-> day, startTime |-> times[1], endTime |-> times[2],
   location |-> "", description |-> <<"Disciplina", title>>,
   professors |-> professors,
   startDate |-> IF startDate.null THEN NoDate ELSE toISOString(startDate),
   endDate |-> IF endDate.null THEN NoDate ELSE toISOString(endDate)]

\* Anchor dates: the ends of February in a leap year and in a common year,
\* the end of a year, and a week inside a month.
AnchorDates ==
  {LocalDate(2024, 2, d, 0) : d \in 23..29} \cup {LocalDate(2025, 2, d, 0) : d \in 22..28}
  \cup {LocalDate(2025, 12, d, 0) : d \in 25..31} \cup {LocalDate(2025, 8, d, 0) : d \in 4..10}

OfferingEnds == {LocalDate(2025, 12, 10, 0), LocalDate(2025, 6, 30, 0)}

Todays == {LocalDate(2025, 8, 1, 14), LocalDate(2025, 12, 31, 22)}

EventDays == {daysMap[i] : i \in 1..Len(daysMap)} \cup {"Xyz"}

\* Class times: a morning class, the evening classes around 21:00, and the
\* two ends of the day.
ClassTimes ==
  {<<"08:00", "10:00">>, <<"20:59", "22:40">>, <<"21:00", "22:40">>, <<"00:00", "23:59">>}

ExportEvents ==
  {ScrapedEvent("Calculo I", day, times, professors, startDate, endDate) :
     day \in EventDays, times \in ClassTimes,
     professors \in {"", "Ana"},
     startDate \in AnchorDates \cup {NoDate}, endDate \in OfferingEnds \cup {NoDate}}

\* The lists of events the export handler is run on.
MaxEvents == 2

FileEvents ==
  {ScrapedEvent("Calculo I", day, times, "Ana", dates[1], dates[2]) :
     day \in {"Segunda-feira", "Sabado", "Xyz"},
     times \in {<<"08:00", "10:00">>, <<"21:00", "22:40">>, <<"00:00", "23:59">>},
     dates \in {<<NoDate, NoDate>>,
                <<LocalDate(2025, 8, 4, 0), LocalDate(2025, 12, 10, 0)>>,
                <<LocalDate(2025, 12, 29, 0), NoDate>>}}

(***************************************************************************)
(* State.                                                                  *)
(***************************************************************************)
VARIABLES
  version,            \* which version of the content script runs
  tablePresent,       \* whether 'table#tableGradeHoraria' matches an element
  headerPresent,      \* whether '.ui-jqgrid-hdiv .jqg-third-row-header' does
  headers,            \* texts of the header cells after the two time columns
  rows,               \* the tr.jqgrow rows of the table
  shown,              \* the course whose details the visible panel holds
  pending,            \* activations the page has not rendered yet
  pc,                 \* where extractSchedule stands
  disciplineSlots,    \* code -> slots collected by the first pass
  disciplineSpans,    \* the codes with a stored marker, in insertion order
  idx,                \* position of the second pass in disciplineSpans
  walk,               \* part_003: the marked cells its loops meet, in order
  cursor,             \* part_003: the marked cell the single pass stands at
  elapsed,            \* Date.now() - startTime of the running waitForElement
  detailsPanel,       \* whether waitForElement resolved with the element
  fullDisciplineName, \* part_006: the local kept across the tab delay
  events,             \* events (content, part_003), finalEvents (part_006)
  result,             \* the promise extractSchedule returned
  log                 \* what the run did to the page and when, in order

pageVars == <<version, tablePresent, headerPresent, headers, rows>>
runVars ==
  <<shown, pending, pc, disciplineSlots, disciplineSpans, idx, walk, cursor, elapsed,
    detailsPanel, fullDisciplineName, events, result, log>>
scrapeVars == <<pageVars, runVars>>

VARIABLES
  handlers,          \* popup: the click handlers started, each with its position
  errorDisplay,      \* errorMessage.style.display
  errorText,         \* the text of the p inside errorMessage
  statusDisplay,     \* statusMessage.style.display
  statusText,        \* statusMessage.textContent
  extractBtnDisplay, \* extractBtn.style.display
  resultsDisplay,    \* resultsContainer.style.display
  extractedEvents,   \* the events the popup keeps
  classList,         \* the cards of class-list
  today,             \* the local date and hour new Date() gives
  cardEvent,         \* the event one pass of the loop of displayResults takes
  card,              \* the card that pass built, once it has run
  icsContent,        \* the lines of the last calendar file downloaded
  exports,           \* the clicks on the export button so far
  opened             \* the links of the cards opened in a new tab so far

popupVars ==
  <<handlers, errorDisplay, errorText, statusDisplay, statusText, extractBtnDisplay,
    resultsDisplay, extractedEvents, classList>>
exportVars == <<cardEvent, card, icsContent, exports, opened>>

VARIABLES
  rawDays,           \* part_006: the first-cell texts of the rows of '.horarios'
  dayFull            \* the names normalizeDayName gave for them so far

dayVars == <<rawDays, dayFull>>

VARIABLES
  events5,           \* part_005: the events array after the second pass
  finalEvents5,      \* part_005: finalEvents
  pc5                \* part_005: where the final formatting stands

dedupVars == <<events5, finalEvents5, pc5>>

VARIABLES
  listeners,         \* onMessage listeners content.js has registered on the page
  attempts,          \* popup: where each click on the extract button stands
  runs,              \* the calls of extractSchedule on the page, each with its position
  pageClicks         \* the clicks on course markers, <<run, code>>, in order

concVars == <<listeners, attempts, runs, pageClicks>>
sideVars == <<dayVars, dedupVars, concVars>>

cells == MarkedCells(rows, DaysOfWeek(headers), 1)

NoResult == [status |-> "pending", success |-> FALSE, data |-> <<>>]

\* The popup as it opens: the extract button and the status line.
PopupIdle ==
  /\ handlers = <<>>
  /\ errorDisplay = "none"
  /\ errorText = <<"Erro">>
  /\ statusDisplay = "block"
  /\ statusText = ""
  /\ extractBtnDisplay = "block"
  /\ resultsDisplay = "none"
  /\ extractedEvents = <<>>
  /\ classList = <<>>

\* No event is being displayed.
ExportIdle ==
  /\ cardEvent = ScrapedEvent("", "", <<"", "">>, "", NoDate, NoDate)
  /\ card = <<>>
  /\ icsContent = <<>>
  /\ exports = 0
  /\ opened = <<>>

\* No sub-table is being read.
DayIdle ==
  /\ rawDays = <<>>
  /\ dayFull = <<>>

\* part_005 is not formatting its output.
Dedup5Idle ==
  /\ events5 = <<>>
  /\ finalEvents5 = <<>>
  /\ pc5 = "idle"

\* content.js has not been injected into the page.
ConcIdle ==
  /\ listeners = 0
  /\ attempts = <<>>
  /\ runs = <<>>
  /\ pageClicks = <<>>

SideIdle ==
  /\ DayIdle
  /\ Dedup5Idle
  /\ ConcIdle

\* extractSchedule has not been called.
RunIdle ==
  /\ shown = None
  /\ pending = {}
  /\ pc = "start"
  /\ disciplineSlots = <<>>
  /\ disciplineSpans = <<>>
  /\ idx = 0
  /\ walk = <<>>
  /\ cursor = 0
  /\ elapsed = 0
  /\ detailsPanel = FALSE
  /\ fullDisciplineName = None
  /\ events = <<>>
  /\ result = NoResult
  /\ log = <<>>

\* A tab without the grid, for the specifications of the popup alone.
PageIdle ==
  /\ version = "content"
  /\ tablePresent = FALSE
  /\ headerPresent = FALSE
  /\ headers = <<"Seg", "Qua">>
  /\ rows = <<>>

InitScrape(versions) ==
  /\ version \in versions
  /\ tablePresent \in BOOLEAN
  /\ headerPresent \in BOOLEAN
  /\ headers \in HeaderRows
  /\ rows \in Grids(Len(headers))
  /\ RunIdle
  /\ SideIdle
  /\ PopupIdle
  /\ ExportIdle
  /\ today \in {LocalDate(2025, 8, 1, 14)}

(***************************************************************************)
(* Reading the panel.                                                      *)
(***************************************************************************)
\* classSpan.innerText.trim(): the code with its class group.
SpanText(code) == <<code, "-2025101">>

\* p.innerText.trim().replace(/^\d+\s*-\s*/, '')
StripNumber(p) == p.name

\* .map(strip).join(', '): the names, in order.
JoinProfs(profs) == [k \in 1..Len(profs) |-> StripNumber(profs[k])]

NotFound == <<"Nao encontrado">>

\* fullDisciplineName after the panel was read (content, part_003, part_006)
ReadName(code, panel, sh, hasName) ==
  IF panel /\ hasName THEN PageName(sh) ELSE code

ReadProfessors(panel, sh) ==
  IF panel /\ Len(PageProfs(sh)) > 0 THEN JoinProfs(PageProfs(sh)) ELSE NotFound

\* content.js 128-136
ContentEvent(code, panel, sh, hasName, slots) ==
  [title |-> code,
   fullTitle |-> ReadName(code, panel, sh, hasName),
   codeWithGroup |-> SpanText(code),
   professors |-> ReadProfessors(panel, sh),
   location |-> "",
   description |-> [disciplina |-> SpanText(code),
                    docentes |-> ReadProfessors(panel, sh)],
   schedule |-> slots]

\* part_003 130-141
ClassInfo3(code, panel, sh, hasName, slot) ==
  [title |-> code,
   fullTitle |-> ReadName(code, panel, sh, hasName),
   professors |-> ReadProfessors(panel, sh),
   location |-> "Verificar no JupiterWeb",
   description |-> [disciplina |-> ReadName(code, panel, sh, hasName),
                    professores |-> ReadProfessors(panel, sh)],
   schedule |-> <<slot>>]

(***************************************************************************)
(* The final expansion: one event per slot.                                *)
(***************************************************************************)
\* IsDuplicate with the test on the course code instead of the title the
\* final events carry.
IsDuplicateByCode(finalEvents, event, slot) ==
  \E k \in 1..Len(finalEvents) :
     /\ finalEvents[k].title = event.title
     /\ finalEvents[k].day = slot.day
     /\ finalEvents[k].startTime = slot.startTime

\* content.js 142: finalEvents.some(e => e.title === event.fullTitle && ...)
IsDuplicate(finalEvents, event, slot) ==
  \E k \in 1..Len(finalEvents) :
     /\ finalEvents[k].title = event.fullTitle
     /\ finalEvents[k].day = slot.day
     /\ finalEvents[k].startTime = slot.startTime

FinalEvent(event, slot) ==
  [title |-> event.fullTitle, code |-> event.codeWithGroup, day |-> slot.day,
   startTime |-> slot.startTime, endTime |-> slot.endTime,
   location |-> event.location, description |-> event.description]

RECURSIVE ExpandSchedule(_, _, _)
ExpandSchedule(finalEvents, event, k) ==
  IF k > Len(event.schedule) THEN finalEvents
  ELSE ExpandSchedule(
         IF IsDuplicate(finalEvents, event, event.schedule[k]) THEN finalEvents
         ELSE Append(finalEvents, FinalEvent(event, event.schedule[k])),
         event, k + 1)

RECURSIVE ExpandEvents(_, _, _)
ExpandEvents(finalEvents, evs, j) ==
  IF j > Len(evs) THEN finalEvents
  ELSE ExpandEvents(ExpandSchedule(finalEvents, evs[j], 1), evs, j + 1)

\* part_003 148-160: no duplicate test; the title joins code and full name.
RECURSIVE ExpandEvents3(_, _, _, _)
ExpandEvents3(finalEvents, evs, j, k) ==
  IF j > Len(evs) THEN finalEvents
  ELSE IF k > Len(evs[j].schedule) THEN ExpandEvents3(finalEvents, evs, j + 1, 1)
  ELSE ExpandEvents3(
         Append(finalEvents,
                [title |-> <<evs[j].title, evs[j].fullTitle>>,
                 day |-> evs[j].schedule[k].day,
                 startTime |-> evs[j].schedule[k].startTime,
                 endTime |-> evs[j].schedule[k].endTime,
                 location |-> evs[j].location,
                 description |-> evs[j].description]),
         evs, j, k + 1)

\* The data of the returned result.
FinalData(evs) ==
  CASE version = "content"  -> ExpandEvents(<<>>, evs, 1)
    [] version = "part_003" -> ExpandEvents3(<<>>, evs, 1, 1)
    [] OTHER                -> evs

(***************************************************************************)
(* part_003: the single pass.  From marked cell k on, cells of a course    *)
(* already in events only add their slot (unless the event has one with    *)
(* the same day and start); the walk stops at the first cell of a new      *)
(* course, which is clicked.                                               *)
(***************************************************************************)
AddSlot3(evs, cell) ==
  LET j == CHOOSE i \in 1..Len(evs) :
             evs[i].title = cell.code /\ \A h \in 1..(i - 1) : evs[h].title # cell.code
      has == \E q \in 1..Len(evs[j].schedule) :
                evs[j].schedule[q].day = cell.day
                /\ evs[j].schedule[q].startTime = cell.startTime
  IN IF has THEN evs
     ELSE [evs EXCEPT ![j].schedule = Append(@, SlotOf(cell))]

RECURSIVE Walk3(_, _, _)
Walk3(cs, evs, k) ==
  IF k > Len(cs) THEN [events |-> evs, cursor |-> k]
  ELSE IF \E i \in 1..Len(evs) : evs[i].title = cs[k].code
       THEN Walk3(cs, AddSlot3(evs, cs[k]), k + 1)
       ELSE [events |-> evs, cursor |-> k]

(***************************************************************************)
(* part_006: the events of one course, pushed straight into finalEvents.   *)
(***************************************************************************)
\* date.toISOString(): the UTC instant of the local midnight (UTC-03:00).
ToISOString(date) ==
  [null |-> FALSE, y |-> date.y, m |-> date.m, d |-> date.d, utc |-> "T03:00:00.000Z"]

NullIso == [null |-> TRUE, y |-> "", m |-> "", d |-> "", utc |-> ""]

\* startDate ? startDate.toISOString() : null; an Invalid Date is truthy
\* and its toISOString throws.
IsoOrNull(date) == IF date.null THEN NullIso ELSE ToISOString(date)
Throws(date) == ~date.null /\ ~date.valid

OfferStart(offer) ==
  IF offer.div THEN parsePtDate(getTextFromSelectors(offer.dtainitur, 1)) ELSE NullDate
OfferEnd(offer) ==
  IF offer.div THEN parsePtDate(getTextFromSelectors(offer.dtafimtur, 1)) ELSE NullDate

Event6(code, name, offer, slot) ==
  LET prof == SpecificProf(IF offer.div THEN offer.horarios ELSE <<>>, slot)
  IN [title |-> name, code |-> code, day |-> slot.day,
      startTime |-> slot.startTime, endTime |-> slot.endTime, location |-> "",
      startDate |-> IsoOrNull(OfferStart(offer)),
      endDate |-> IsoOrNull(OfferEnd(offer)),
      professors |-> prof,
      description |-> [disciplina |-> code, professor |-> prof]]

Events6(code, name, offer, slots) ==
  [k \in 1..Len(slots) |-> Event6(code, name, offer, slots[k])]

(***************************************************************************)
(* extractSchedule, one action per task of the event loop: the code from   *)
(* one suspension point to the next runs without interruption.  The page   *)
(* acts between the tasks (PageMoves).                                     *)
(***************************************************************************)
CurrentCode ==
  IF version = "part_003" THEN walk[cursor].code ELSE disciplineSpans[idx]

\* return { success, data }
Return(ok, evs, lg, sh, pe) ==
  /\ pc' = "done"
  /\ result' = [status |-> "resolved", success |-> ok,
                data |-> IF ok THEN FinalData(evs) ELSE <<>>]
  /\ events' = evs
  /\ log' = lg
  /\ shown' = sh
  /\ pending' = pe
  /\ elapsed' = 0
  /\ UNCHANGED <<idx, cursor, detailsPanel, fullDisciplineName>>

\* An exception leaves the async function: the promise rejects.
Reject(evs, lg, sh, pe) ==
  /\ pc' = "done"
  /\ result' = [status |-> "rejected", success |-> FALSE, data |-> <<>>]
  /\ events' = evs
  /\ log' = lg
  /\ shown' = sh
  /\ pending' = pe
  /\ elapsed' = 0
  /\ UNCHANGED <<idx, cursor, detailsPanel, fullDisciplineName>>

\* classSpan.click(); await waitForElement('#tab_detalhes')
Activate(code, i, k, evs, lg, sh, pe) ==
  /\ pc' = "wait"
  /\ idx' = i
  /\ cursor' = k
  /\ elapsed' = 0
  /\ detailsPanel' = FALSE
  /\ fullDisciplineName' = None
  /\ events' = evs
  /\ log' = Append(lg, <<"click", code>>)
  /\ shown' = sh
  /\ pending' = pe \cup {code}
  /\ UNCHANGED result

\* The head of the second pass: the next course, or the end of the loop.
NextDiscipline(order, i, evs, lg, sh, pe) ==
  IF i > Len(order) THEN Return(TRUE, evs, lg, sh, pe)
  ELSE Activate(order[i], i, cursor, evs, lg, sh, pe)

\* part_003: the loops go on from marked cell k.
Resume3(cs, evs, k, lg, sh, pe) ==
  LET w == Walk3(cs, evs, k)
  IN IF w.cursor > Len(cs) THEN Return(TRUE, w.events, lg, sh, pe)
     ELSE Activate(cs[w.cursor].code, idx, w.cursor, w.events, lg, sh, pe)

\* WidgetMissing without the test of the header.
WidgetMissingNoHeader == ~tablePresent

\* !scheduleTable || !headerContainer
WidgetMissing == ~tablePresent \/ ~headerPresent

\* The call: the checks, the first pass, and the first click.
Start ==
  /\ pc = "start"
  /\ IF WidgetMissing \/ Len(rows) = 0
     THEN /\ Return(FALSE, <<>>, log, shown, pending)
          /\ UNCHANGED <<disciplineSlots, disciplineSpans, walk>>
     ELSE IF version = "part_003"
     THEN /\ walk' = cells
          /\ Resume3(walk', <<>>, 1, log, shown, pending)
          /\ UNCHANGED <<disciplineSlots, disciplineSpans>>
     ELSE /\ disciplineSlots' = CollectSlots(cells)
          /\ disciplineSpans' = CodesInOrder(cells, 1, <<>>)
          /\ NextDiscipline(disciplineSpans', 1, <<>>, log, shown, pending)
          /\ UNCHANGED walk
  /\ UNCHANGED pageVars
  /\ UNCHANGED <<popupVars, today, exportVars, sideVars>>

\* part_006 180-198: the events of the course, or the exception of
\* toISOString on an Invalid Date.
Push6(code, name, offer, lg, sh, pe) ==
  IF Throws(OfferStart(offer)) \/ Throws(OfferEnd(offer))
  THEN Reject(events, Append(lg, <<"throw", code, offer>>), sh, pe)
  ELSE NextDiscipline(disciplineSpans, idx + 1,
                      events \o Events6(code, name, offer, disciplineSlots[code]),
                      Append(lg, <<"read", code, offer>>), sh, pe)

\* AfterWait without the settle delay: the panel is read at once.
AfterWaitNoSettle(found, sh, pe) ==
  LET code == CurrentCode
      lg == Append(log, <<IF found THEN "found" ELSE "timeout", code>>)
  IN \E hasName \in BOOLEAN :
       NextDiscipline(disciplineSpans, idx + 1,
         Append(events, ContentEvent(code, found, sh, hasName, disciplineSlots[code])),
         Append(lg, <<"read", code>>), sh, pe)

\* waitForElement resolved: the code after the await.
AfterWait(found, sh, pe) ==
  LET code == CurrentCode
      lg == Append(log, <<IF found THEN "found" ELSE "timeout", code>>)
  IN IF version = "part_003"
     THEN \E hasName \in BOOLEAN :
            Resume3(walk, Append(events, ClassInfo3(code, found, sh, hasName,
                                                    SlotOf(walk[cursor]))),
                    cursor + 1, Append(lg, <<"read", code>>), sh, pe)
     ELSE /\ pc' = "settle"
          /\ detailsPanel' = found
          /\ log' = lg
          /\ shown' = sh
          /\ pending' = pe
          /\ elapsed' = 0     \* clearInterval: the wait and its clock are gone
          /\ UNCHANGED <<idx, cursor, fullDisciplineName, events, result>>

\* Expired with the timeout itself taken as expired.
ExpiredAtTimeout(now) == now >= Timeout

\* Date.now() - startTime > timeout
Expired(now) == now > Timeout

\* One tick of the setInterval of waitForElement.
Poll ==
  /\ pc = "wait"
  /\ \E pm \in PageMoves(shown, pending) :
       IF pm[1] # None THEN AfterWait(TRUE, pm[1], pm[2])
       ELSE IF Expired(elapsed + PollInterval) THEN AfterWait(FALSE, pm[1], pm[2])
       ELSE /\ elapsed' = elapsed + PollInterval
            /\ shown' = pm[1]
            /\ pending' = pm[2]
            /\ UNCHANGED <<pc, idx, cursor, detailsPanel, fullDisciplineName,
                           events, result, log>>
  /\ UNCHANGED <<pageVars, disciplineSlots, disciplineSpans, walk>>
  /\ UNCHANGED <<popupVars, today, exportVars, sideVars>>

\* The settle delay ran out: the panel is read.
Settle ==
  /\ pc = "settle"
  /\ \E pm \in PageMoves(shown, pending), hasName \in BOOLEAN :
       LET code == CurrentCode
           lg == Append(log, <<"settled", code>>)
           name == ReadName(code, detailsPanel, pm[1], hasName)
       IN IF version = "content"
          THEN NextDiscipline(disciplineSpans, idx + 1,
                 Append(events, ContentEvent(code, detailsPanel, pm[1], hasName,
                                             disciplineSlots[code])),
                 Append(lg, <<"read", code>>), pm[1], pm[2])
          ELSE IF ~detailsPanel THEN Push6(code, name, NoOffer, lg, pm[1], pm[2])
          ELSE \E offer \in PageOffers(pm[1]) :
                 IF offer.link
                 THEN /\ pc' = "tab"
                      /\ fullDisciplineName' = name
                      /\ log' = Append(lg, <<"tabclick", code>>)
                      /\ shown' = pm[1]
                      /\ pending' = pm[2]
                      /\ UNCHANGED <<idx, cursor, elapsed, detailsPanel, events, result>>
                 ELSE Push6(code, name, offer, lg, pm[1], pm[2])
  /\ UNCHANGED <<pageVars, disciplineSlots, disciplineSpans, walk>>
  /\ UNCHANGED <<popupVars, today, exportVars, sideVars>>

\* part_006: the delay after the click on the offering tab ran out.
TabDelay ==
  /\ pc = "tab"
  /\ \E pm \in PageMoves(shown, pending) :
       \E offer \in PageOffers(pm[1]) :
          Push6(CurrentCode, fullDisciplineName, offer, log, pm[1], pm[2])
  /\ UNCHANGED <<pageVars, disciplineSlots, disciplineSpans, walk>>
  /\ UNCHANGED <<popupVars, today, exportVars, sideVars>>

(***************************************************************************)
(* popup.js: the click handler of the extract button, one action per task; *)
(* every click starts a handler of its own.                                *)
(***************************************************************************)
NoResponse == [present |-> FALSE, success |-> FALSE, data |-> <<>>]

SampleEvents ==
  <<ScrapedEvent("Calculo I", "Segunda-feira", <<"08:00", "10:00">>, "", NoDate, NoDate),
    ScrapedEvent("MAC0121", "Xyz", <<"10:00", "12:00">>, "Ana",
                 LocalDate(2025, 8, 4, 0), LocalDate(2025, 12, 10, 0))>>

\* What sendMessage can resolve with: nothing, or the object a listener sent.
Responses ==
  {NoResponse} \cup
  {[present |-> TRUE, success |-> ok, data |-> SubSeq(SampleEvents, 1, n)] :
     ok \in BOOLEAN, n \in 0..Len(SampleEvents)}

\* error.message of what an awaited call of the browser rejects with
ErrorMessages == {"Could not establish connection. Receiving end does not exist."}

\* The test of the response without the length of the list.
ResponseOkAnyLength(response) == response.present /\ response.success

\* response && response.success && response.data.length > 0
ResponseOk(response) ==
  response.present /\ response.success /\ Len(response.data) > 0

\* A click on the extract button: the handler runs up to its first await.
Click ==
  /\ extractBtnDisplay = "block"
  /\ Len(handlers) < MaxClicks
  /\ errorDisplay' = "none"
  /\ statusText' = "Extraindo dados (isso pode levar alguns segundos)..."
  /\ handlers' = Append(handlers, [pc |-> "query", response |-> NoResponse,
                                   error |-> None, view |-> None])
  /\ UNCHANGED <<errorText, statusDisplay, extractBtnDisplay, resultsDisplay,
                 extractedEvents, classList>>
  /\ UNCHANGED <<scrapeVars, today, exportVars, sideVars>>

\* The catch block.
Catch(h, message) ==
  /\ errorText' = <<"Erro: ", message, ". Tente recarregar a pagina do Jupiter.">>
  /\ errorDisplay' = "block"
  /\ statusText' = "Falha."
  /\ handlers' = [handlers EXCEPT ![h].pc = "done", ![h].error = message,
                                  ![h].view = "error"]
  /\ UNCHANGED <<statusDisplay, extractBtnDisplay, resultsDisplay, extractedEvents,
                 classList>>

\* An awaited call of the browser settles: the handler goes on to the next
\* one, or to the catch block.
Await(h, next) ==
  \/ /\ handlers' = [handlers EXCEPT ![h].pc = next]
     /\ UNCHANGED <<errorDisplay, errorText, statusDisplay, statusText,
                    extractBtnDisplay, resultsDisplay, extractedEvents, classList>>
  \/ \E message \in ErrorMessages : Catch(h, message)

\* browser.tabs.query settled
TabQueried ==
  /\ \E h \in 1..Len(handlers) : handlers[h].pc = "query" /\ Await(h, "inject")
  /\ UNCHANGED <<scrapeVars, today, exportVars, sideVars>>

\* browser.scripting.executeScript settled
ScriptInjected ==
  /\ \E h \in 1..Len(handlers) : handlers[h].pc = "inject" /\ Await(h, "send")
  /\ UNCHANGED <<scrapeVars, today, exportVars, sideVars>>

\* browser.tabs.sendMessage settled: the rest of the handler.
Responded ==
  /\ \E h \in 1..Len(handlers) :
       /\ handlers[h].pc = "send"
       /\ \/ \E message \in ErrorMessages : Catch(h, message)
          \/ \E response \in Responses :
               IF ResponseOk(response)
               THEN /\ extractedEvents' = response.data
                    /\ statusDisplay' = "none"
                    /\ extractBtnDisplay' = "none"
                    /\ resultsDisplay' = "block"
                    /\ classList' = displayResults(response.data, today)
                    /\ handlers' = [handlers EXCEPT ![h].pc = "done",
                                                    ![h].response = response,
                                                    ![h].view = "results"]
                    /\ UNCHANGED <<errorDisplay, errorText, statusText>>
               ELSE /\ errorDisplay' = "block"
                    /\ statusText' = "Erro ao extrair."
                    /\ handlers' = [handlers EXCEPT ![h].pc = "done",
                                                    ![h].response = response,
                                                    ![h].view = "error"]
                    /\ UNCHANGED <<errorText, statusDisplay, extractBtnDisplay,
                                   resultsDisplay, extractedEvents, classList>>
  /\ UNCHANGED <<scrapeVars, today, exportVars, sideVars>>

\* ExportIcs with the list emptied once the file is downloaded.
ExportIcsAndClear ==
  /\ exports < MaxExports
  /\ exports' = exports + 1
  /\ icsContent' = IF Len(extractedEvents) = 0 THEN icsContent
                   ELSE IcsDocument(extractedEvents, today)
  /\ extractedEvents' = <<>>
  /\ UNCHANGED <<cardEvent, card, opened>>
  /\ UNCHANGED <<handlers, errorDisplay, errorText, statusDisplay, statusText,
                 extractBtnDisplay, resultsDisplay, classList>>
  /\ UNCHANGED <<scrapeVars, today, sideVars>>

\* A click on the export button: the whole handler (popup.js 231-309).  It
\* returns at once on an empty list; else it builds the file and downloads
\* it through an anchor that it adds to the body and removes again.
ExportIcs ==
  /\ exports < MaxExports
  /\ exports' = exports + 1
  /\ icsContent' = IF Len(extractedEvents) = 0 THEN icsContent
                   ELSE IcsDocument(extractedEvents, today)
  /\ UNCHANGED <<cardEvent, card, opened>>
  /\ UNCHANGED <<scrapeVars, popupVars, today, sideVars>>

\* A click on the Google or Outlook anchor of a card (popup.js 213-220):
\* target="_blank", the link opens in a new tab.
OpenLink ==
  /\ resultsDisplay = "block"
  /\ Len(opened) < MaxExports
  /\ \E k \in 1..Len(classList) :
       \/ opened' = Append(opened, classList[k].googleLink)
       \/ opened' = Append(opened, classList[k].outlookLink)
  /\ UNCHANGED <<cardEvent, card, icsContent, exports>>
  /\ UNCHANGED <<scrapeVars, popupVars, today, sideVars>>

\* part_006 165-169: one pass of the forEach over the rows of the
\* sub-table, up to dayFull.
NormalizeRow ==
  /\ Len(dayFull) < Len(rawDays)
  /\ dayFull' = Append(dayFull, normalizeDayName(rawDays[Len(dayFull) + 1]))
  /\ UNCHANGED <<scrapeVars, popupVars, today, exportVars, rawDays, dedupVars, concVars>>

(***************************************************************************)
(* part_005: the final formatting.  Its test for a slot already in the     *)
(* output compares texts by prefix, so the course codes are kept here as   *)
(* sequences of characters.                                                *)
(***************************************************************************)
Codes5 ==
  { <<"M", "A", "C", "0", "1", "1", "0">>,
    <<"M", "A", "C", "0", "1", "1", "0", "E">>,
    <<"M", "A", "C", "0", "1", "2", "1">> }
NoSpan == <<>>
RowTimes5 == {<<"08:00", "09:00">>, <<"08:00", "10:00">>, <<"10:00", "12:00">>}

\* a row of the grid of part_005: the two time cells and two weekday cells
RowKinds5 ==
  { [startTime |-> t[1], endTime |-> t[2], cells |-> c] :
      t \in RowTimes5, c \in [1..2 -> Codes5 \cup {NoSpan}] }

RECURSIVE GridMarks5(_, _)
GridMarks5(g, r) ==
  IF r > Len(g) THEN 0
  ELSE Cardinality({i \in 1..2 : g[r].cells[i] # NoSpan}) + GridMarks5(g, r + 1)

\* The grid widget lists its rows by time of day.
Grids5 ==
  { g \in SeqsUpTo(RowKinds5, MaxRows) :
      /\ GridMarks5(g, 1) <= MaxSlots
      /\ \A r \in 1..(Len(g) - 1) :
            g[r].startTime = "08:00" \/ g[r + 1].startTime = "10:00" }

\* part_005 73-97: the marked cells in the order the loops meet them
RECURSIVE MarkedCells5(_, _, _, _)
MarkedCells5(g, days, r, i) ==
  IF r > Len(g) THEN <<>>
  ELSE IF i > 2 THEN MarkedCells5(g, days, r + 1, 1)
  ELSE (IF g[r].cells[i] # NoSpan
        THEN << [code |-> g[r].cells[i], day |-> days[i],
                 startTime |-> g[r].startTime, endTime |-> g[r].endTime] >>
        ELSE <<>>) \o MarkedCells5(g, days, r, i + 1)

PageName5(code) ==
  IF code[6] = "1" THEN <<"C", "a", "l", "c", "u", "l", "o">>
  ELSE <<"A", "l", "g", "e", "b", "r", "a">>

\* part_005 102-138: one event per stored course, in insertion order; the
\* name is the one read from the panel, or the code when none was read.
Events5(g, named) ==
  LET marked == MarkedCells5(g, DaysOfWeek(<<"Seg", "Qua">>), 1, 1)
      order == CodesInOrder(marked, 1, <<>>)
  IN [j \in 1..Len(order) |->
        [title |-> order[j],
         fullTitle |-> IF named THEN PageName5(order[j]) ELSE order[j],
         professors |-> NotFound,
         location |-> "Verificar no JupiterWeb",
         schedule |-> SlotsOfCode(marked, order[j])]]

\* String.prototype.startsWith
startsWith(text, prefix) ==
  /\ Len(prefix) <= Len(text)
  /\ SubSeq(text, 1, Len(prefix)) = prefix

\* `${event.title} - ${event.fullTitle}`
Title5(event) == event.title \o <<" ", "-", " ">> \o event.fullTitle

\* part_005 145: finalEvents.some(e => e.title.startsWith(event.title) && ...)
IsDuplicate5(finalEvents, event, slot) ==
  \E k \in 1..Len(finalEvents) :
     /\ startsWith(finalEvents[k].title, event.title)
     /\ finalEvents[k].day = slot.day
     /\ finalEvents[k].startTime = slot.startTime

\* part_005 146-153
FinalEvent5(event, slot) ==
  [title |-> Title5(event), day |-> slot.day,
   startTime |-> slot.startTime, endTime |-> slot.endTime,
   location |-> event.location,
   description |-> [disciplina |-> event.fullTitle, professores |-> event.professors]]

RECURSIVE ExpandEvents5(_, _, _, _)
ExpandEvents5(finalEvents, evs, j, k) ==
  IF j > Len(evs) THEN finalEvents
  ELSE IF k > Len(evs[j].schedule) THEN ExpandEvents5(finalEvents, evs, j + 1, 1)
  ELSE ExpandEvents5(
         IF IsDuplicate5(finalEvents, evs[j], evs[j].schedule[k]) THEN finalEvents
         ELSE Append(finalEvents, FinalEvent5(evs[j], evs[j].schedule[k])),
         evs, j, k + 1)

\* part_005 140-157: from the end of the second pass to the return.
Format5 ==
  /\ pc5 = "format"
  /\ finalEvents5' = ExpandEvents5(<<>>, events5, 1, 1)
  /\ pc5' = "returned"
  /\ UNCHANGED <<scrapeVars, popupVars, today, exportVars, dayVars, events5, concVars>>

(***************************************************************************)
(* Repeated clicks on the extract button, seen from the page: every click  *)
(* has content.js injected again and sends one more 'extract' message.     *)
(* The evaluations of content.js on one page share their top-level scope:  *)
(* the first declares dayMap and registers the listener, a later one fails *)
(* at the redeclaration of the const before any of its statements runs.    *)
(* executeScript of the later one fulfils or rejects, as the browser has   *)
(* it.                                                                     *)
(***************************************************************************)
\* popup.js 148-152: the click, up to await browser.tabs.query
ExtractClicked ==
  /\ Len(attempts) < MaxClicks
  /\ attempts' = Append(attempts, "query")
  /\ UNCHANGED <<listeners, runs, pageClicks>>
  /\ UNCHANGED <<scrapeVars, popupVars, today, exportVars, dayVars, dedupVars>>

\* popup.js 152-157: the tab is known, executeScript is called
TabFound ==
  /\ \E a \in 1..Len(attempts) :
       /\ attempts[a] = "query"
       /\ attempts' = [attempts EXCEPT ![a] = "inject"]
  /\ UNCHANGED <<listeners, runs, pageClicks>>
  /\ UNCHANGED <<scrapeVars, popupVars, today, exportVars, dayVars, dedupVars>>

\* content.js evaluated on the page (162-166 registers the listener) and
\* popup.js 154-159: executeScript settled, sendMessage is called or the
\* catch block runs
ContentInjected ==
  /\ \E a \in 1..Len(attempts) :
       /\ attempts[a] = "inject"
       /\ IF listeners = 0
          THEN /\ listeners' = 1
               /\ attempts' = [attempts EXCEPT ![a] = "send"]
          ELSE /\ listeners' = listeners
               /\ \E next \in {"send", "failed"} :
                     attempts' = [attempts EXCEPT ![a] = next]
  /\ UNCHANGED <<runs, pageClicks>>
  /\ UNCHANGED <<scrapeVars, popupVars, today, exportVars, dayVars, dedupVars>>

\* content.js 46-105: a call of extractSchedule up to its first await
StartRun ==
  LET order == CodesInOrder(cells, 1, <<>>)
  IN IF WidgetMissing \/ Len(rows) = 0 \/ Len(order) = 0
     THEN [idx |-> 0, pc |-> "done"]
     ELSE [idx |-> 1, pc |-> "wait"]

RunClick(r) ==
  IF runs'[r].pc = "wait"
  THEN << <<r, CodesInOrder(cells, 1, <<>>)[runs'[r].idx]>> >>
  ELSE <<>>

\* content.js 162-166: the message reaches the listener, which calls
\* extractSchedule
ExtractDelivered ==
  /\ \E a \in 1..Len(attempts) :
       /\ attempts[a] = "send"
       /\ attempts' = [attempts EXCEPT ![a] = "sent"]
  /\ runs' = Append(runs, StartRun)
  /\ pageClicks' = pageClicks \o RunClick(Len(runs'))
  /\ UNCHANGED listeners
  /\ UNCHANGED <<scrapeVars, popupVars, today, exportVars, dayVars, dedupVars>>

\* content.js 107-108: waitForElement of a run resolved, the delay starts
RunWaitResolved ==
  /\ \E r \in 1..Len(runs) :
       /\ runs[r].pc = "wait"
       /\ runs' = [runs EXCEPT ![r].pc = "settle"]
  /\ UNCHANGED <<listeners, attempts, pageClicks>>
  /\ UNCHANGED <<scrapeVars, popupVars, today, exportVars, dayVars, dedupVars>>

\* content.js 108-137 and 102-105, or 139-156: the delay of a run ran out;
\* the panel is read and the next course clicked, or the run returns
RunSettled ==
  /\ \E r \in 1..Len(runs) :
       /\ runs[r].pc = "settle"
       /\ runs' = [runs EXCEPT ![r] =
                     IF runs[r].idx < Len(CodesInOrder(cells, 1, <<>>))
                     THEN [idx |-> runs[r].idx + 1, pc |-> "wait"]
                     ELSE [idx |-> runs[r].idx, pc |-> "done"]]
       /\ pageClicks' = pageClicks \o RunClick(r)
  /\ UNCHANGED <<listeners, attempts>>
  /\ UNCHANGED <<scrapeVars, popupVars, today, exportVars, dayVars, dedupVars>>

\* One pass of the loop of displayResults, on its own.
DisplayEvent ==
  /\ card = <<>>
  /\ card' = <<Card(cardEvent, today)>>
  /\ UNCHANGED <<scrapeVars, popupVars, today, cardEvent, icsContent, exports, opened>>
  /\ UNCHANGED sideVars

vars == <<scrapeVars, popupVars, today, exportVars, sideVars>>

(***************************************************************************)
(* Specifications.  Spec runs content.js; the others run the versions      *)
(* they name, from the same pages.                                         *)
(***************************************************************************)
Init == InitScrape({"content"})
Next == Start \/ Poll \/ Settle
Spec == Init /\ [][Next]_vars

\* part_006, the offering-dates version
InitOffering == InitScrape({"part_006"})
NextOffering == Start \/ Poll \/ Settle \/ TabDelay
SpecOffering == InitOffering /\ [][NextOffering]_vars

\* the two versions with a collection pass and a settle delay
InitTwoPass == InitScrape({"content", "part_006"})
SpecTwoPass == InitTwoPass /\ [][NextOffering]_vars

\* content.js and the single pass of part_003
InitClicks == InitScrape({"content", "part_003"})
SpecClicks == InitClicks /\ [][Next]_vars

\* content.js on a one-row grid under every pair of header texts: the seven
\* abbreviations, an unknown text, the empty text, an abbreviation in lower
\* case and a full name
HeaderTexts == DOMAIN dayMap \cup {"Xyz", "", "seg", "Segunda-feira"}
InitHeaders ==
  /\ version = "content"
  /\ tablePresent = TRUE
  /\ headerPresent = TRUE
  /\ headers \in {<<a, b>> : a \in HeaderTexts, b \in HeaderTexts}
  /\ rows \in {g \in Grids(2) : /\ Len(g) = 1
                                /\ ~g[1].short
                                /\ g[1].startTime = "08:00"
                                /\ g[1].cells = <<"MAC0110", "MAC0121">>}
  /\ RunIdle
  /\ SideIdle
  /\ PopupIdle
  /\ ExportIdle
  /\ today \in {LocalDate(2025, 8, 1, 14)}
SpecHeaders == InitHeaders /\ [][Next]_vars

\* normalizeDayName on the rows of a sub-table
InitDayNames ==
  /\ version = "part_006"
  /\ tablePresent = FALSE
  /\ headerPresent = FALSE
  /\ headers = <<"Seg", "Qua">>
  /\ rows = <<>>
  /\ RunIdle
  /\ PopupIdle
  /\ ExportIdle
  /\ today \in {LocalDate(2025, 8, 1, 14)}
  /\ rawDays \in SeqsUpTo(DayTexts, MaxDayRows)
  /\ Dedup5Idle
  /\ ConcIdle
  /\ dayFull = <<>>
NextDayNames == NormalizeRow
SpecDayNames == InitDayNames /\ [][NextDayNames]_vars

\* the final formatting of part_005, on the events of every small grid
InitDedup5 ==
  /\ PageIdle
  /\ RunIdle
  /\ PopupIdle
  /\ ExportIdle
  /\ DayIdle
  /\ ConcIdle
  /\ today \in {LocalDate(2025, 8, 1, 14)}
  /\ events5 \in {Events5(g, named) : g \in Grids5, named \in BOOLEAN}
  /\ finalEvents5 = <<>>
  /\ pc5 = "format"
NextDedup5 == Format5
SpecDedup5 == InitDedup5 /\ [][NextDedup5]_vars

\* repeated clicks on the extract button over every small grid
InitRuns ==
  /\ version = "content"
  /\ tablePresent = TRUE
  /\ headerPresent \in BOOLEAN
  /\ headers = <<"Seg", "Qua">>
  /\ rows \in Grids(2)
  /\ RunIdle
  /\ PopupIdle
  /\ ExportIdle
  /\ DayIdle
  /\ Dedup5Idle
  /\ ConcIdle
  /\ today \in {LocalDate(2025, 8, 1, 14)}
NextRuns ==
  \/ ExtractClicked
  \/ TabFound
  \/ ContentInjected
  \/ ExtractDelivered
  \/ RunWaitResolved
  \/ RunSettled
SpecRuns == InitRuns /\ [][NextRuns]_vars

\* the popup, on a tab that answers as it likes
InitPopup ==
  /\ PageIdle
  /\ RunIdle
  /\ SideIdle
  /\ PopupIdle
  /\ ExportIdle
  /\ today \in {LocalDate(2025, 8, 1, 14)}
NextPopup == Click \/ TabQueried \/ ScriptInjected \/ Responded \/ ExportIcs \/ OpenLink
SpecPopup == InitPopup /\ [][NextPopup]_vars

\* displayResults on one event
InitExport ==
  /\ PageIdle
  /\ RunIdle
  /\ SideIdle
  /\ PopupIdle
  /\ cardEvent \in ExportEvents
  /\ card = <<>>
  /\ icsContent = <<>>
  /\ exports = 0
  /\ opened = <<>>
  /\ today \in Todays
NextExport == DisplayEvent
SpecExport == InitExport /\ [][NextExport]_vars

\* The popup after an extraction that returned the events: the state the
\* success branch of the click handler leaves (popup.js 163-167).
PopupResults(evs, now) ==
  /\ handlers = <<[pc |-> "done",
                   response |-> [present |-> TRUE, success |-> TRUE, data |-> evs],
                   error |-> None, view |-> "results"]>>
  /\ errorDisplay = "none"
  /\ errorText = <<"Erro">>
  /\ statusDisplay = "none"
  /\ statusText = "Extraindo dados (isso pode levar alguns segundos)..."
  /\ extractBtnDisplay = "none"
  /\ resultsDisplay = "block"
  /\ extractedEvents = evs
  /\ classList = displayResults(evs, now)

\* the export handler, on the lists of events an extraction can leave
InitIcs ==
  /\ PageIdle
  /\ RunIdle
  /\ SideIdle
  /\ ExportIdle
  /\ today \in Todays
  /\ \E evs \in SeqsUpTo(FileEvents, MaxEvents) :
       Len(evs) > 0 /\ PopupResults(evs, today)
NextIcs == ExportIcs
SpecIcs == InitIcs /\ [][NextIcs]_vars

(***************************************************************************)
(* Properties of the scraper.                                              *)
(***************************************************************************)
Done == pc = "done"
Succeeded == Done /\ result.status = "resolved" /\ result.success

\* The codes the grid carries.
GridCodes == {cells[k].code : k \in 1..Len(cells)}

ClickCount(code) ==
  Cardinality({i \in 1..Len(log) : log[i] = <<"click", code>>})

SameKey(a, b) == a.title = b.title /\ a.day = b.day /\ a.startTime = b.startTime

\* C1: the event list extractSchedule of content.js returns holds no two
\* events with the same (title, day, startTime).
C1_NoDuplicateEvents ==
  Done => \A i, j \in 1..Len(result.data) :
             i # j => ~SameKey(result.data[i], result.data[j])

\* Two courses resolved to the same title and share a day and start time:
\* the second one's slot was dropped.
C1_Witness ==
  /\ Succeeded
  /\ Len(events) = 2
  /\ events[1].fullTitle = events[2].fullTitle
  /\ Len(events[1].schedule) = 1
  /\ Len(events[2].schedule) = 1
  /\ events[1].schedule[1].day = events[2].schedule[1].day
  /\ events[1].schedule[1].startTime = events[2].schedule[1].startTime
  /\ Len(result.data) = 1

\* C2: without the table or without its header row the run returns
\* {success: false, data: []}, throws nothing and clicks nothing.
C2_MissingWidgetFails ==
  (~tablePresent \/ ~headerPresent) =>
     /\ log = <<>>
     /\ Done => result = [status |-> "resolved", success |-> FALSE, data |-> <<>>]

C2_Witness == Done /\ tablePresent /\ ~headerPresent /\ Len(cells) > 0

\* The events of the result that belong to a course.
EventsOfCode(code) ==
  SelectSeq(result.data,
            LAMBDA e : e.code = (IF version = "content" THEN SpanText(code) ELSE code))

\* The instructors an event carries: the professors field of part_006; the
\* final events of content.js have no such field and carry the instructors
\* in their description.
Instructors(e) ==
  IF version = "part_006" THEN <<e.professors>> ELSE e.description.docentes

Placeholder ==
  IF version = "part_006" THEN <<"Docente nao informado">> ELSE NotFound

\* The events of a course are its grid slots, one event each, in order,
\* titled with the bare code and carrying the placeholder.
OneEventPerSlot(code) ==
  LET evs == EventsOfCode(code)
      slots == disciplineSlots[code]
  IN /\ Len(evs) = Len(slots)
     /\ \A k \in 1..Len(evs) :
          /\ evs[k].title = code
          /\ evs[k].day = slots[k].day
          /\ evs[k].startTime = slots[k].startTime
          /\ evs[k].endTime = slots[k].endTime
          /\ Instructors(evs[k]) = Placeholder

TimedOut(code) == \E i \in 1..Len(log) : log[i] = <<"timeout", code>>

\* C3 as stated: a course whose panel never became visible still yields
\* success and exactly one event per grid slot of the course, titled with
\* the bare code, on the slot's weekday, with the placeholder instructors.
C3_OneEventPerGridSlot ==
  Done => \A code \in GridCodes :
             TimedOut(code) => result.success /\ OneEventPerSlot(code)

\* A course marked on Monday 08:00 and Wednesday 08:00 timed out and has
\* its two events.
C3_Witness ==
  /\ Succeeded
  /\ \E code \in GridCodes :
       /\ TimedOut(code)
       /\ Len(disciplineSlots[code]) = 2
       /\ disciplineSlots[code][1].day = "Segunda-feira"
       /\ disciplineSlots[code][2].day = "Quarta-feira"
       /\ disciplineSlots[code][1].startTime = "08:00"
       /\ disciplineSlots[code][2].startTime = "08:00"
       /\ Len(EventsOfCode(code)) = 2

\* The grid passed the checks of lines 50 and 64.
GridFound == ~WidgetMissing /\ Len(rows) > 0

\* The polls one wait can take: the last one finds the timeout elapsed.
WaitPolls == Timeout \div PollInterval + 1

\* The tasks a run of content.js still has before it: per course the polls
\* of its wait and the settle delay.
Remaining ==
  CASE pc = "done"   -> 0
    [] pc = "start"  -> (Cardinality(Codes) + 1) * (WaitPolls + 2)
    [] pc = "settle" -> (Len(disciplineSpans) - idx) * (WaitPolls + 2) + 1
    [] pc = "wait"   -> (Len(disciplineSpans) - idx) * (WaitPolls + 2) + 2
                          + (WaitPolls - 1 - elapsed \div PollInterval)
    [] OTHER         -> -1

\* The run of content.js does not hang: until it has returned a task of it
\* is due, and each task leaves fewer tasks before it, so the run returns
\* once the event loop has run its due timers; no wait outlasts its timeout
\* and the promise never rejects.
Resolves ==
  /\ [](~Done => ENABLED Next)
  /\ [](Remaining \in Nat)
  /\ [][Remaining' < Remaining]_vars
  /\ [](pc = "wait" => elapsed <= Timeout)
  /\ [](Done => result.status = "resolved")

\* C4 as stated: the run of content.js resolves on every grid and every
\* page behaviour, no wait outlasts its timeout, and the result holds
\* events of every course of the grid.
C4_ResolvesWithEveryCourse ==
  /\ Resolves
  /\ [](Done /\ GridFound =>
          /\ Succeeded
          /\ \A code \in GridCodes : Len(EventsOfCode(code)) > 0)

\* Two courses, the panel never visible for either: both waits ran to the
\* timeout and the run returned an event for each.
C4_Witness ==
  /\ Succeeded
  /\ Cardinality(GridCodes) = 2
  /\ \A code \in GridCodes : TimedOut(code) /\ Len(EventsOfCode(code)) > 0

\* The steps of one course in the log.
StepsOf(i, code) ==
  /\ log[i] = <<"click", code>>
  /\ i + 1 <= Len(log) => log[i + 1] \in {<<"found", code>>, <<"timeout", code>>}
  /\ i + 2 <= Len(log) => log[i + 2] = <<"settled", code>>
  /\ i + 3 <= Len(log) => log[i + 3] = <<"read", code>>

\* C5: the courses are enriched one after the other: a click is issued
\* only after the wait, the settle delay and the reads of the course
\* clicked before it.
C5_SequentialEnrichment ==
  \A i \in 1..Len(log) :
     /\ i % 4 = 1 => \E code \in Codes : StepsOf(i, code)
     /\ log[i][1] = "click" => i % 4 = 1

\* A second course was clicked after the first one was read.
C5_Witness ==
  /\ Done
  /\ Len(log) = 8
  /\ log[4][1] = "read"
  /\ log[5][1] = "click"
  /\ log[5][2] # log[1][2]

\* The number of marked cells that carry the code.
CellCount(code) ==
  Cardinality({k \in 1..Len(cells) : cells[k].code = code})

\* C6: a run clicks each course code of the grid once, however many cells
\* carry it (content.js and part_003).
C6_OneClickPerCode ==
  /\ \A code \in Codes : ClickCount(code) <= 1
  /\ Succeeded => \A code \in Codes :
                     ClickCount(code) = IF code \in GridCodes THEN 1 ELSE 0

\* A course on two cells of the grid was clicked once.
C6_Witness ==
  /\ Succeeded
  /\ \E code \in GridCodes : CellCount(code) = 2 /\ ClickCount(code) = 1

(***************************************************************************)
(* Properties of the popup.                                                *)
(***************************************************************************)
\* The handler has run to its end.
Finished(h) == handlers[h].pc = "done"

\* The handler got a response that exists, says success and lists events.
GotEvents(h) ==
  /\ handlers[h].error = None
  /\ handlers[h].response.present
  /\ handlers[h].response.success
  /\ Len(handlers[h].response.data) > 0

\* C7: after an extract click the results view is shown if and only if the
\* response exists, says success and lists at least one event; a failure,
\* a success without events, a missing response and a thrown error each
\* show the error view and do not show the results view.
C7_ResultsIffEvents ==
  /\ [](resultsDisplay = "block" <=>
          \E h \in 1..Len(handlers) : Finished(h) /\ GotEvents(h))
  /\ [](\A h \in 1..Len(handlers) :
          Finished(h) => handlers[h].view = IF GotEvents(h) THEN "results" ELSE "error")
  /\ [][\A h \in 1..Len(handlers) :
          (~Finished(h) /\ Finished(h)' /\ ~GotEvents(h)') =>
             errorDisplay' = "block" /\ resultsDisplay' = resultsDisplay]_vars

\* An attempt whose await threw ended in the error view, and the retry got
\* two events and ended in the results view.
C7_Witness ==
  /\ Len(handlers) = 2
  /\ Finished(1) /\ handlers[1].error # None /\ handlers[1].view = "error"
  /\ Finished(2) /\ GotEvents(2) /\ handlers[2].view = "results"
  /\ resultsDisplay = "block"
  /\ errorDisplay = "none"
  /\ Len(classList) = 2

(***************************************************************************)
(* Properties of the exporter.                                             *)
(***************************************************************************)
Displayed == card # <<>>

\* The Date calculateFirstClassDate starts from for the displayed event.
Anchor == IF ~cardEvent.startDate.null THEN newDate(cardEvent.startDate) ELSE today

CanonicalDay == \E i \in 1..Len(daysMap) : daysMap[i] = cardEvent.day

\* The days from the anchor to the date of the first class.
Shift == DayNumber(card[1].firstClassDate) - DayNumber(Anchor)

\* C8: for every anchor date and every canonical weekday, the result of
\* calculateFirstClassDate is the anchor plus d days with 0 <= d <= 6, on
\* the target weekday, and d = 0 when the anchor already is on that weekday.
C8_FirstClassDate ==
  (Displayed /\ CanonicalDay) =>
     /\ Shift \in 0..6
     /\ (Shift = 0 => card[1].firstClassDate = Anchor)
     /\ card[1].firstClassDate.d \in 1..DaysInMonth(card[1].firstClassDate.y,
                                                    card[1].firstClassDate.m)
     /\ card[1].firstClassDate.h = Anchor.h
     /\ daysMap[getDay(card[1].firstClassDate) + 1] = cardEvent.day
     /\ (daysMap[getDay(Anchor) + 1] = cardEvent.day => Shift = 0)
     /\ (getDay(Anchor) = 3 /\ cardEvent.day = "Quarta-feira" =>
           card[1].firstClassDate = Anchor)
     /\ (getDay(Anchor) = 5 /\ cardEvent.day = "Segunda-feira" => Shift = 3)

\* Friday 2025-02-28 with target Monday gives 2025-03-03.
C8_Witness ==
  /\ Displayed
  /\ Anchor = LocalDate(2025, 2, 28, 0)
  /\ cardEvent.day = "Segunda-feira"
  /\ card[1].firstClassDate = LocalDate(2025, 3, 3, 0)

\* The parts of the rule of the Google link with the given key.
RuleParts(key) ==
  LET rule == card[1].googleLink.recur[2]
  IN {i \in 1..Len(rule) : rule[i][1] = key}

\* The calendar date an UNTIL stamp names.
StampDate(stamp) ==
  LocalDate(stamp.year, stamp.month[1] * 10 + stamp.month[2],
            stamp.day[1] * 10 + stamp.day[2], 0)

\* C9: the Google link of an event with a known offering end date carries a
\* weekly rule bounded by UNTIL, on or after that date; the link of an event
\* without one carries a weekly rule bounded by COUNT=18; never both bounds
\* and never none.
C9_UntilOrCount ==
  Displayed =>
     LET rule == card[1].googleLink.recur[2]
     IN /\ card[1].googleLink.recur[1] = "RRULE"
        /\ rule[1] = <<"FREQ", "WEEKLY">>
        /\ Cardinality(RuleParts("UNTIL")) + Cardinality(RuleParts("COUNT")) = 1
        /\ IF ~cardEvent.endDate.null
           THEN /\ Cardinality(RuleParts("UNTIL")) = 1
                /\ \A i \in RuleParts("UNTIL") :
                     /\ rule[i][2].time = "T235959Z"
                     /\ DayNumber(StampDate(rule[i][2]))
                          >= DayNumber(newDate(cardEvent.endDate))
           ELSE /\ Cardinality(RuleParts("COUNT")) = 1
                /\ \A i \in RuleParts("COUNT") : rule[i][2] = 18

\* An event whose offering ends on 2025-12-10 got UNTIL=20251210T235959Z.
C9_Witness ==
  /\ Displayed
  /\ ~cardEvent.endDate.null
  /\ newDate(cardEvent.endDate) = LocalDate(2025, 12, 10, 0)
  /\ card[1].googleLink.recur[2][3] =
       <<"UNTIL", [year |-> 2025, month |-> <<1, 2>>, day |-> <<1, 0>>,
                   time |-> "T235959Z"]>>

\* The link carries a weekly recurrence rule.
HasWeeklyRule(link) ==
  /\ "recur" \in DOMAIN link
  /\ link.recur[2][1] = <<"FREQ", "WEEKLY">>

\* C10: for every displayed event both the Google link and the Outlook
\* link carry a weekly recurrence rule.
C10_BothLinksRecur ==
  Displayed => /\ HasWeeklyRule(card[1].googleLink)
               /\ HasWeeklyRule(card[1].outlookLink)

\* An event is displayed and its Google link carries the weekly rule.
C10_Witness == Displayed /\ HasWeeklyRule(card[1].googleLink)

\* The seconds from 1970-01-01T00:00:00Z to the instant an UNTIL stamp of
\* the Google link names: its date, 23:59:59, read in UTC as the Z says.
UntilInstant(stamp) ==
  DayNumber(StampDate(stamp)) * 86400
    + (IF stamp.time = "T235959Z" THEN 23 * 3600 + 59 * 60 + 59 ELSE 0)

\* The same for the start of the class held on the local date at the local
\* time: the local clock is TzOffset hours behind UTC.
ClassInstant(date, time) ==
  DayNumber(date) * 86400
    + (TimeParts(time).hours * 60 + TimeParts(time).minutes) * 60
    + TzOffset * 3600

\* The displayed event has an offering end date, on the event's weekday.
EndsOnClassDay ==
  /\ Displayed
  /\ ~cardEvent.endDate.null
  /\ CanonicalDay
  /\ daysMap[getDay(newDate(cardEvent.endDate)) + 1] = cardEvent.day

\* C11: when the offering end date falls on the event's weekday, the UNTIL
\* bound of the rule (local end date + 'T235959Z') is not earlier than the
\* start of the class held on the end date, whatever the start time of the
\* class in the UTC-03:00 zone.
C11_UntilCoversLastClass ==
  EndsOnClassDay =>
     \A i \in RuleParts("UNTIL") :
        UntilInstant(card[1].googleLink.recur[2][i][2])
          >= ClassInstant(newDate(cardEvent.endDate), cardEvent.startTime)

\* A class at 20:59 on the end date 2025-12-10, a Wednesday: the bound
\* 20251210T235959Z is one minute less a second after its start.
C11_Witness ==
  /\ EndsOnClassDay
  /\ cardEvent.startTime = "20:59"
  /\ newDate(cardEvent.endDate) = LocalDate(2025, 12, 10, 0)
  /\ \E i \in RuleParts("UNTIL") :
       UntilInstant(card[1].googleLink.recur[2][i][2])
         - ClassInstant(newDate(cardEvent.endDate), cardEvent.startTime) = 59

(***************************************************************************)
(* Properties of the calendar file.                                        *)
(***************************************************************************)
\* A file has been downloaded.
Exported == exports > 0 /\ icsContent # <<>>

\* The lines of the file that read name:value.
Lines(name, value) ==
  {i \in 1..Len(icsContent) : icsContent[i][1] = name /\ icsContent[i][2] = value}

\* C12: the file exported from a list of N >= 1 events has exactly one
\* BEGIN:VCALENDAR, exactly one END:VCALENDAR and exactly N VEVENT entries
\* between them: every extracted class is in the file.
C12_FileHoldsEveryEvent ==
  Exported =>
     /\ Lines("BEGIN", "VCALENDAR") = {1}
     /\ Lines("END", "VCALENDAR") = {Len(icsContent)}
     /\ Cardinality(Lines("BEGIN", "VEVENT")) = Len(extractedEvents)
     /\ Cardinality(Lines("END", "VEVENT")) = Len(extractedEvents)

\* Two classes on known weekdays, two entries in the file.
C12_Witness ==
  /\ Exported
  /\ Len(extractedEvents) = 2
  /\ \A k \in 1..2 : getDayInitial(extractedEvents[k].day) # ""
  /\ Cardinality(Lines("BEGIN", "VEVENT")) = 2
  /\ Lines("BEGIN", "VCALENDAR") = {1}
  /\ Lines("END", "VCALENDAR") = {Len(icsContent)}

\* The minutes from 1970-01-01T00:00 to the local date and time a stamp of
\* the file names: stamps order as these numbers do.
StampNumber(stamp) ==
  DayNumber(LocalDate(stamp.year, stamp.month[1] * 10 + stamp.month[2],
                      stamp.day[1] * 10 + stamp.day[2], 0)) * 1440
    + (stamp.hours[1] * 10 + stamp.hours[2]) * 60
    + stamp.minutes[1] * 10 + stamp.minutes[2]

\* The lines of the file that carry a DTSTART of an entry.
StartLines ==
  {i \in 1..Len(icsContent) : icsContent[i][1] = "DTSTART;TZID=America/Sao_Paulo"}

\* C13: every VEVENT entry of the exported file has DTSTART <= DTEND, the
\* two stamps being the first class date with the start and the end time of
\* the grid row of the event.
C13_StartNotAfterEnd ==
  Exported =>
     /\ Cardinality(StartLines) = Cardinality(Lines("BEGIN", "VEVENT"))
     /\ \A i \in StartLines :
          /\ icsContent[i + 1][1] = "DTEND;TZID=America/Sao_Paulo"
          /\ StampNumber(icsContent[i][2]) <= StampNumber(icsContent[i + 1][2])
          /\ icsContent[i][2].year = icsContent[i + 1][2].year
          /\ icsContent[i][2].month = icsContent[i + 1][2].month
          /\ icsContent[i][2].day = icsContent[i + 1][2].day

\* An evening class, exported on the evening of 2025-12-31: the entry runs
\* from 21:00 to 22:40 of one day.
C13_Witness ==
  /\ Exported
  /\ today = LocalDate(2025, 12, 31, 22)
  /\ \E i \in StartLines :
       /\ icsContent[i][2].hours = <<2, 1>>
       /\ icsContent[i + 1][2].hours = <<2, 2>>
       /\ icsContent[i + 1][2].minutes = <<4, 0>>
       /\ StampNumber(icsContent[i][2]) < StampNumber(icsContent[i + 1][2])

\* The parts BYDAY of a rule (the sequence of its parts) with no day code.
EmptyByday(rule) == \E i \in 1..Len(rule) : rule[i][1] = "BYDAY" /\ rule[i][2] = ""

\* The displayed event has a weekday without a recurrence code.
NoDayCode == Displayed /\ getDayInitial(cardEvent.day) = ""

\* C14: for an event whose weekday has no recurrence code no output of the
\* exporter carries a recurrence rule: no deep link and no entry of the
\* calendar file holds a rule with an empty BYDAY.
C14_NoRuleWithoutDayCode ==
  /\ NoDayCode =>
        /\ "recur" \notin DOMAIN card[1].googleLink
        /\ "recur" \notin DOMAIN card[1].outlookLink
  /\ \A i \in 1..Len(icsContent) :
        icsContent[i][1] = "RRULE" => ~EmptyByday(icsContent[i][2])

\* An event on the weekday 'Xyz' is displayed; its Outlook link carries no
\* rule.
C14_Witness ==
  /\ NoDayCode
  /\ cardEvent.day = "Xyz"
  /\ "recur" \notin DOMAIN card[1].outlookLink

(***************************************************************************)
(* Properties of the weekday mapping.                                      *)
(***************************************************************************)
\* The weekday a header text stands for: the full name of each of the seven
\* abbreviations, and any other text itself.
CanonicalName(text) ==
  CASE text = "Seg" -> "Segunda-feira"
    [] text = "Ter" -> "Terca-feira"
    [] text = "Qua" -> "Quarta-feira"
    [] text = "Qui" -> "Quinta-feira"
    [] text = "Sex" -> "Sexta-feira"
    [] text = "Sab" -> "Sabado"
    [] text = "Dom" -> "Domingo"
    [] OTHER -> text

\* The event stands for a cell of the course in a column whose header text
\* has the event's day as its weekday.
DayOfItsColumn(e, code) ==
  \E r \in 1..Len(rows) :
     /\ ~rows[r].short
     /\ \E j \in 1..Len(headers) :
          /\ rows[r].cells[j] = code
          /\ e.startTime = rows[r].startTime
          /\ e.day = CanonicalName(headers[j])

FailureReason(h) ==
  IF handlers[h].error # None THEN handlers[h].error
  ELSE IF ~handlers[h].response.present THEN "no response"
  ELSE IF ~handlers[h].response.success THEN "failure response"
  ELSE "empty result"

\* The text of the error view names the reason and suggests a reload.
ShowsReason(h) ==
  /\ errorDisplay = "block"
  /\ \E i \in 1..Len(errorText) : errorText[i] = FailureReason(h)
  /\ \E i \in 1..Len(errorText) : errorText[i] = ". Tente recarregar a pagina do Jupiter."

\* C16: every attempt that ends in the error view (failure response, empty
\* result or thrown error) leaves the view showing the failure reason of
\* that attempt together with the suggestion to reload the page.
C16_ErrorViewShowsReason ==
  [][\A h \in 1..Len(handlers) :
       (~Finished(h) /\ Finished(h)' /\ handlers'[h].view = "error") => ShowsReason(h)']_vars

\* An attempt whose await threw: the view shows the message of the error
\* and the suggestion.
C16_Witness ==
  /\ Len(handlers) = 1
  /\ Finished(1)
  /\ handlers[1].error # None
  /\ ShowsReason(1)
  /\ errorText = <<"Erro: ", handlers[1].error, ". Tente recarregar a pagina do Jupiter.">>

\* The attempt ended without a thrown error and the view shows the message
\* of an error all the same: that of an earlier attempt.
StaleReason(h) ==
  /\ Finished(h)
  /\ handlers[h].view = "error"
  /\ handlers[h].error = None
  /\ errorDisplay = "block"
  /\ Len(errorText) = 3
  /\ errorText[2] \in ErrorMessages

(***************************************************************************)
(* The rule of the file against the rule of the Google link.               *)
(***************************************************************************)
\* The characters after 'T' of an UNTIL stamp, as digits and letters: the
\* Google link writes them as the fixed text T235959Z, the file from the
\* hours, minutes and seconds of the end date.
UntilClock(stamp) ==
  IF "time" \in DOMAIN stamp
  THEN (IF stamp.time = "T235959Z" THEN <<2, 3, 5, 9, 5, 9, "Z">> ELSE <<stamp.time>>)
  ELSE stamp.hours \o stamp.minutes \o stamp.seconds \o <<stamp.zone>>

\* Two parts of a rule read the same.
SamePart(a, b) ==
  /\ a[1] = b[1]
  /\ IF a[1] = "UNTIL"
     THEN /\ a[2].year = b[2].year
          /\ a[2].month = b[2].month
          /\ a[2].day = b[2].day
          /\ UntilClock(a[2]) = UntilClock(b[2])
     ELSE a[2] = b[2]

SameRule(a, b) ==
  /\ Len(a) = Len(b)
  /\ \A i \in 1..Len(a) : SamePart(a[i], b[i])

\* The positions in extractedEvents of the events with a recurrence code.
Coded == SelectSeq([k \in 1..Len(extractedEvents) |-> k],
                   LAMBDA k : getDayInitial(extractedEvents[k].day) # "")

\* The lines of the file that carry a rule, in order.
RuleLines == SelectSeq(icsContent, LAMBDA line : line[1] = "RRULE")

\* C17: for every event with a recurrence code the rule of its entry in the
\* calendar file is the rule of its Google link: the same FREQ and BYDAY
\* and the same UNTIL value, or the same COUNT=18.
C17_SameRuleInFileAndLink ==
  Exported =>
     /\ Len(RuleLines) = Len(Coded)
     /\ \A n \in 1..Len(RuleLines) :
          /\ classList[Coded[n]].googleLink.recur[1] = "RRULE"
          /\ SameRule(RuleLines[n][2], classList[Coded[n]].googleLink.recur[2])

\* A list of an event that ends on 2025-12-10 and one without an end date:
\* the two entries carry UNTIL=20251210T235959Z and COUNT=18 as the links do.
C17_Witness ==
  /\ Exported
  /\ Len(Coded) = 2
  /\ Len(RuleLines) = 2
  /\ RuleLines[1][2][3][1] = "UNTIL"
  /\ UntilClock(RuleLines[1][2][3][2]) = <<2, 3, 5, 9, 5, 9, "Z">>
  /\ RuleLines[1][2][3][2].day = <<1, 0>>
  /\ RuleLines[2][2][3] = <<"COUNT", 18>>
  /\ SameRule(RuleLines[1][2], classList[1].googleLink.recur[2])

(***************************************************************************)
(* Properties of the offering-dates version (part_006).                    *)
(***************************************************************************)
\* The run of part_006 has returned its list.
Returned6 == version = "part_006" /\ Succeeded

\* C18: the list extractSchedule of part_006 returns holds no two events
\* with the same (title, day, startTime), also when two course codes resolve
\* to the same title or a code stands twice on one weekday and start time.
C18_NoDuplicatesOffering ==
  Returned6 =>
     \A i \in 1..Len(result.data) :
        \A j \in (i + 1)..Len(result.data) : ~SameKey(result.data[i], result.data[j])

\* Two courses with different titles on different weekdays: two events
\* with different keys.
C18_Witness ==
  /\ Returned6
  /\ Len(result.data) = 2
  /\ result.data[1].title # result.data[2].title
  /\ result.data[1].day # result.data[2].day
  /\ ~SameKey(result.data[1], result.data[2])

\* What part_006 read for its courses, in order: the code and the offering
\* tab the panel held (none when the panel was missing).
Reads6 == SelectSeq(log, LAMBDA l : l[1] = "read")

\* The weekday a text of the first column of the sub-table stands for.
RowWeekday(text) ==
  CASE text \in {"seg", " Seg ", "Segunda"} -> "Segunda-feira"
    [] text \in {"qua", "QUA", "quarta"}    -> "Quarta-feira"
    [] text = "xyz"                         -> "Xyz"
    [] OTHER                                -> text

\* The rows of the sub-table, with the four cells the code asks for, that
\* stand for the weekday and start time of the event.
MatchingRows(offer, e) ==
  LET rws == IF offer.div THEN offer.horarios ELSE <<>>
  IN {i \in 1..Len(rws) : /\ rws[i].ncols >= 4
                           /\ RowWeekday(rws[i].day) = e.day
                           /\ rws[i].start = e.startTime}

\* The instructor the event is to carry: the name in the last matching
\* row, the placeholder when no row matches or the name is blank.
ExpectedInstructor(offer, e) ==
  LET matching == MatchingRows(offer, e)
      last == CHOOSE i \in matching : \A j \in matching : j <= i
  IN IF matching = {} THEN "Docente nao informado"
     ELSE IF offer.horarios[last].prof = "" THEN "Docente nao informado"
     ELSE offer.horarios[last].prof

\* C19: in part_006 the instructor of every event is the name in the row of
\* the panel's schedule sub-table with the event's weekday and start time,
\* and the placeholder 'Docente nao informado' when no row matches or the
\* panel is missing; it is never blank, and the run never throws for it:
\* a rejected run threw on an offering date.
C19_InstructorOrPlaceholder ==
  version = "part_006" =>
     /\ \A k \in 1..Len(events) :
          /\ events[k].professors # ""
          /\ \E n \in 1..Len(Reads6) :
               /\ Reads6[n][2] = events[k].code
               /\ events[k].professors = ExpectedInstructor(Reads6[n][3], events[k])
     /\ result.status = "rejected" =>
          /\ log[Len(log)][1] = "throw"
          /\ \/ Throws(OfferStart(log[Len(log)][3]))
             \/ Throws(OfferEnd(log[Len(log)][3]))

\* A course on Monday 08:00 and Wednesday 10:00 whose panel lists Ana for
\* Monday 08:00 and a blank name for Wednesday 10:00: the events carry Ana
\* and the placeholder.
C19_Witness ==
  /\ Returned6
  /\ \E i, j \in 1..Len(result.data) :
       /\ result.data[i].code = result.data[j].code
       /\ result.data[i].day = "Segunda-feira"
       /\ result.data[i].professors = "Ana"
       /\ result.data[j].day = "Quarta-feira"
       /\ result.data[j].startTime = "10:00"
       /\ result.data[j].professors = "Docente nao informado"
       /\ \E n \in 1..Len(Reads6) :
            /\ Reads6[n][2] = result.data[j].code
            /\ MatchingRows(Reads6[n][3], result.data[j]) # {}

(***************************************************************************)
(* Properties of the Results state.                                        *)
(***************************************************************************)
\* The popup shows the results of an extraction.
InResults == resultsDisplay = "block"

\* The step is a click on the export button or on a link of a card.
UserActed == exports' # exports \/ opened' # opened

\* C20: in the Results state, opening a deep link and clicking the export
\* button, any number of times, leave the extracted event list, the cards
\* and the visibility of the results, error and extract-button elements as
\* they were.
C20_ResultsActionsChangeNothing ==
  [][(InResults /\ UserActed) =>
        UNCHANGED <<extractedEvents, classList, resultsDisplay, errorDisplay,
                    extractBtnDisplay>>]_vars

\* Two exports and a link opened in the Results state: the file holds the
\* entry of the class and the list and the cards are those of the response.
C20_Witness ==
  /\ InResults
  /\ exports = 2
  /\ Len(opened) > 0
  /\ Exported
  /\ Len(extractedEvents) > 0
  /\ classList = displayResults(extractedEvents, today)
  /\ extractBtnDisplay = "none"

(***************************************************************************)
(* Properties of waitForElement.                                           *)
(***************************************************************************)
\* The resolutions of the waits started for a course, in the log.
ResolveCount(code) ==
  Cardinality({i \in 1..Len(log) : log[i] \in {<<"found", code>>, <<"timeout", code>>}})

\* The step is a tick of the interval that resolves the promise.
WaitResolves == pc = "wait" /\ pc' # "wait"

\* The step is a tick of the interval that leaves the promise pending.
WaitGoesOn == pc = "wait" /\ pc' = "wait"

\* C21: waitForElement resolves exactly once and never rejects; with the
\* element only at a poll that finds the panel visible, with null at the
\* first poll after the timeout has elapsed without one, and it polls no
\* more once it has resolved.
C21_WaitResolvesOnce ==
  /\ [][WaitResolves =>
          /\ detailsPanel' = (shown' # None)
          /\ ~detailsPanel' => /\ elapsed <= Timeout
                               /\ elapsed + PollInterval > Timeout
          /\ \E code \in Codes :
               /\ ResolveCount(code)' = ResolveCount(code) + 1
               /\ ResolveCount(code)' = ClickCount(code)']_vars
  /\ [][WaitGoesOn =>
          /\ shown' = None
          /\ elapsed' = elapsed + PollInterval
          /\ elapsed' <= Timeout
          /\ log' = log]_vars
  /\ [](pc # "wait" =>
          /\ elapsed = 0
          /\ \A code \in Codes : ResolveCount(code) = ClickCount(code))
  /\ [](\A code \in Codes : ResolveCount(code) <= ClickCount(code))
  /\ [](result.status # "rejected")

\* The first wait ran into the timeout and the second found the panel.
C21_Witness ==
  /\ Succeeded
  /\ Len(log) = 8
  /\ \E a, b \in Codes :
       /\ log[2] = <<"timeout", a>>
       /\ log[6] = <<"found", b>>
       /\ ResolveCount(a) = 1
       /\ ResolveCount(b) = 1

(***************************************************************************)
(* Properties of the collection pass.                                      *)
(***************************************************************************)
\* The cells of the grid, by row and weekday column, that carry the marker
\* of the course.
Positions(code) ==
  {pos \in (1..Len(rows)) \X (1..Len(headers)) :
     ~rows[pos[1]].short /\ rows[pos[1]].cells[pos[2]] = code}

\* The place of a cell among the cells of its course, in the order of the
\* walk: row by row, and column by column in a row.
Rank(pos, code) ==
  1 + Cardinality({q \in Positions(code) :
                     q[1] < pos[1] \/ (q[1] = pos[1] /\ q[2] < pos[2])})

\* The slots collected for a course are as many as its cells.
AllCollected(code) ==
  IF Positions(code) = {} THEN code \notin DOMAIN disciplineSlots
  ELSE /\ code \in DOMAIN disciplineSlots
       /\ Len(disciplineSlots[code]) = Cardinality(Positions(code))

\* C22: content.js issues no activation click before every data row has
\* been walked and all slots are collected: whenever a click has been made
\* the slots of every course are complete, and no slot is added or changed
\* after the first click.
C22_ClicksAfterCollection ==
  /\ [](log # <<>> => \A code \in Codes : AllCollected(code))
  /\ [][log # <<>> =>
          disciplineSlots' = disciplineSlots /\ disciplineSpans' = disciplineSpans]_vars
  /\ [][log = <<>> /\ log' # <<>> =>
          /\ Len(log') = 1
          /\ log'[1][1] = "click"
          /\ \A code \in Codes : AllCollected(code)']_vars

\* The first click is made and the course of another row has its two
\* slots already.
C22_Witness ==
  /\ Len(log) = 1
  /\ log[1][1] = "click"
  /\ \E code \in Codes :
       /\ code # log[1][2]
       /\ Cardinality(Positions(code)) > 0
       /\ \E pos \in Positions(code) : pos[1] = 2
       /\ AllCollected(code)

\* C23: the collection pass records exactly one slot per grid cell that
\* carries a course marker, with the start and end time of the cell's row
\* and the weekday of its column; the slots of a course in different cells
\* are all kept, in the order of the walk, none merged or dropped.
C23_OneSlotPerMarkedCell ==
  (pc # "start" /\ GridFound) =>
     \A code \in Codes :
        /\ AllCollected(code)
        /\ \A pos \in Positions(code) :
             disciplineSlots[code][Rank(pos, code)] =
               [day |-> CanonicalName(headers[pos[2]]),
                startTime |-> rows[pos[1]].startTime,
                endTime |-> rows[pos[1]].endTime]

\* A course marked in the same column of two rows that start at the same
\* time: two slots with equal weekday and start time, both kept.
C23_Witness ==
  /\ pc # "start"
  /\ GridFound
  /\ \E code \in Codes :
       /\ Cardinality(Positions(code)) = 2
       /\ Len(disciplineSlots[code]) = 2
       /\ disciplineSlots[code][1].day = disciplineSlots[code][2].day
       /\ disciplineSlots[code][1].startTime = disciplineSlots[code][2].startTime

(***************************************************************************)
(* Properties of normalizeDayName.                                         *)
(***************************************************************************)
\* The full name of the weekday a text abbreviates, in three letters or
\* more and in whatever case and spacing; any other text itself.
WeekdayOfAbbreviation(text) ==
  CASE text \in {"seg", " Seg ", "Segunda"} -> "Segunda-feira"
    [] text \in {"qua", "QUA", "quarta"}    -> "Quarta-feira"
    [] text \in {"sex", "sexta-feira"}     -> "Sexta-feira"
    [] text = "Dom"                         -> "Domingo"
    [] OTHER                                -> text

\* C24: normalizeDayName of part_006 returns the canonical full weekday
\* name for every abbreviation, of three letters or more, of a known
\* weekday, and its input unchanged for every other input.
C24_NormalizeDayName ==
  \A k \in 1..Len(dayFull) : dayFull[k] = WeekdayOfAbbreviation(rawDays[k])

\* 'quarta' and ' Seg ' gave 'Quarta-feira' and 'Segunda-feira'.
C24_Witness ==
  /\ rawDays = <<"quarta", " Seg ">>
  /\ dayFull = <<"Quarta-feira", "Segunda-feira">>

(***************************************************************************)
(* The final formatting of part_005.                                       *)
(***************************************************************************)
Formatted5 == pc5 = "returned"

\* C30: in the output of part_005, every collected slot of a course is
\* there as an event of that same course with the slot's weekday and start
\* time: a slot is left out only when an event of its own course already
\* had them, never because of an event of another course.
C30_DropsOnlyOwnDuplicates ==
  Formatted5 =>
    \A j \in 1..Len(events5) : \A k \in 1..Len(events5[j].schedule) :
       \E n \in 1..Len(finalEvents5) :
          /\ finalEvents5[n].title = Title5(events5[j])
          /\ finalEvents5[n].day = events5[j].schedule[k].day
          /\ finalEvents5[n].startTime = events5[j].schedule[k].startTime

\* one course with two slots of the same weekday and start time, the
\* second left out
C30_Witness ==
  /\ Formatted5
  /\ Len(events5) = 1
  /\ Len(events5[1].schedule) = 2
  /\ events5[1].schedule[1].day = events5[1].schedule[2].day
  /\ events5[1].schedule[1].startTime = events5[1].schedule[2].startTime
  /\ Len(finalEvents5) = 1

(***************************************************************************)
(* The views of the popup under overlapping attempts.                      *)
(***************************************************************************)
\* C25: the results view and the error view of the popup are never visible
\* at the same time, whatever the order in which overlapping attempts end.
C25_OneViewAtATime == ~(resultsDisplay = "block" /\ errorDisplay = "block")

\* two overlapping attempts, both ended, the results alone on display
C25_Witness ==
  /\ Len(handlers) = 2
  /\ \A h \in 1..2 : handlers[h].pc = "done"
  /\ resultsDisplay = "block"
  /\ errorDisplay = "none"

\* C28: whenever the error view is visible, its text is the one the most
\* recent failed attempt wrote: the generic text when that attempt got a
\* failure response, the text of its own error when it threw.
C28_TextOfLatestFailure ==
  [][\A h \in 1..Len(handlers) :
        (handlers[h].pc # "done" /\ handlers'[h].pc = "done"
           /\ handlers'[h].view = "error")
        => errorText' = (IF handlers'[h].error = None THEN <<"Erro">>
                         ELSE <<"Erro: ", handlers'[h].error,
                                ". Tente recarregar a pagina do Jupiter.">>)]_vars

\* a failure response first, then an attempt that threw: the text on
\* display is that of the second
C28_Witness ==
  /\ Len(handlers) = 2
  /\ \A h \in 1..2 : handlers[h].pc = "done" /\ handlers[h].view = "error"
  /\ handlers[1].error = None
  /\ handlers[2].error # None
  /\ errorDisplay = "block"
  /\ errorText = <<"Erro: ", handlers[2].error, ". Tente recarregar a pagina do Jupiter.">>

(***************************************************************************)
(* The offering dates of part_006.                                         *)
(***************************************************************************)
\* a text of the form dd/mm/yyyy that names a day of the calendar
WellFormedDate(text) == text \in {"04/08/2025", "10/12/2025"}

StartText(offer) == IF offer.div THEN getTextFromSelectors(offer.dtainitur, 1) ELSE ""
EndText(offer) == IF offer.div THEN getTextFromSelectors(offer.dtafimtur, 1) ELSE ""

PushedOfCode(code) == SelectSeq(events, LAMBDA e : e.code = code)

\* C29: in part_006 no course's offering dates make the run throw, and a
\* course whose start (end) text is missing or malformed gets events with
\* a null startDate (endDate).
C29_BadDateTextGivesNull ==
  \A i \in 1..Len(log) :
     /\ log[i][1] # "throw"
     /\ log[i][1] = "read" =>
          LET mine == PushedOfCode(log[i][2])
          IN /\ ~WellFormedDate(StartText(log[i][3])) =>
                  \A k \in 1..Len(mine) : mine[k].startDate = NullIso
             /\ ~WellFormedDate(EndText(log[i][3])) =>
                  \A k \in 1..Len(mine) : mine[k].endDate = NullIso

\* a course whose start text has two parts and whose end text is missing:
\* its events carry null dates
C29_Witness ==
  \E i \in 1..Len(log) :
     /\ log[i][1] = "read"
     /\ StartText(log[i][3]) = "1/2"
     /\ EndText(log[i][3]) = ""
     /\ Len(PushedOfCode(log[i][2])) > 0
     /\ \A k \in 1..Len(PushedOfCode(log[i][2])) :
           /\ PushedOfCode(log[i][2])[k].startDate = NullIso
           /\ PushedOfCode(log[i][2])[k].endDate = NullIso

(***************************************************************************)
(* Whose details the second pass reads.                                    *)
(***************************************************************************)
\* C27: every event content.js builds carries the name and the instructors
\* of its own course as the page renders them (or the fallbacks of a panel
\* that was not found or lacks them), never those of another course.
C27_ReadsOwnCourse ==
  version = "content" =>
    \A k \in 1..Len(events) :
       /\ events[k].fullTitle \in {events[k].title, PageName(events[k].title)}
       /\ events[k].professors
            \in {NotFound, JoinProfs(PageProfs(events[k].title))}

\* two courses, each read from its own rendered panel
C27_Witness ==
  /\ version = "content"
  /\ Len(events) = 2
  /\ events[1].title # events[2].title
  /\ \A k \in 1..2 : events[k].fullTitle = PageName(events[k].title)
  /\ \E k \in 1..2 : events[k].professors = <<"Ana", "Bia">>

(***************************************************************************)
(* Runs of extractSchedule on one page.                                    *)
(***************************************************************************)
Active(r) == runs[r].pc # "done"

\* the clicks of a run form one block of pageClicks
Interleaved ==
  \E i, j, k \in 1..Len(pageClicks) :
     /\ i < j /\ j < k
     /\ pageClicks[i][1] = pageClicks[k][1]
     /\ pageClicks[j][1] # pageClicks[i][1]

\* C26: whatever the clicks on the extract button, at most one run of
\* extractSchedule is active on the page at a time and the clicks of two
\* runs on the course markers never interleave.
C26_OneRunAtATime ==
  /\ Cardinality({r \in 1..Len(runs) : Active(r)}) <= 1
  /\ ~Interleaved

\* two runs one after the other on a grid of two courses: four clicks,
\* those of the first run before those of the second
C26_Witness ==
  /\ Len(runs) = 2
  /\ ~Active(1) /\ ~Active(2)
  /\ Len(pageClicks) = 4
  /\ pageClicks[1][1] = 1 /\ pageClicks[2][1] = 1
  /\ pageClicks[3][1] = 2 /\ pageClicks[4][1] = 2

====
